---------------------------- MODULE Spec2Model ----------------------------
(***************************************************************************)
(* SyncText: a file-backed collaborative editor.  Each peer polls its own  *)
(* document, turns saves into per-line operation records, broadcasts them  *)
(* through message queues and merges local and received operations with a  *)
(* last-writer-wins rule.                                                  *)
(*                                                                         *)
(* The module holds these state machines over one set of variables:       *)
(*   SpecMerge     do_merge_apply as a function of its inputs              *)
(*   SpecChain     do_merge_apply on the operations of successive saves    *)
(*   SpecRegistry  concurrent registry_register calls, one step per access *)
(*   SpecRing      RingBuffer::push / pop, one step per memory access      *)
(*   Spec          the peers' editor loops, listeners, queues and users    *)
(*   FairSpec      Spec with loops and listeners that keep running         *)
(*   SpecInsert    Spec's editors with users who insert text               *)
(*   SpecDiff      one detection pass over a changed line                  *)
(*   SpecBroadcast the broadcast block, one mq_send per step               *)
(*                                                                         *)
(* Text is a sequence of one-character strings; a document is a sequence   *)
(* of lines; line numbers and columns are 0-based as in the source, so     *)
(* line n of a document d is d[n + 1].                                     *)
(***************************************************************************)
EXTENDS Integers, Sequences, FiniteSets, TLC

(***************************************************************************)
(* Bounds of the model.                                                    *)
(***************************************************************************)
\* operations handed to one do_merge_apply call in SpecMerge
MaxMergeOps == 2
\* longest line of the documents SpecMerge starts from
MaxLineLen == 2

(***************************************************************************)
(* Text helpers (std::string).                                             *)
(***************************************************************************)
Min2(a, b) == IF a < b THEN a ELSE b
Max2(a, b) == IF a > b THEN a ELSE b

\* std::string::substr(pos, n) for pos <= size(); the caller checks pos.
Substr(s, pos, n) == SubSeq(s, pos + 1, Min2(pos + n, Len(s)))

\* std::string::substr(pos): the tail from pos.
SubstrFrom(s, pos) == SubSeq(s, pos + 1, Len(s))

\* std::string operator< on user ids: bytewise, a proper prefix is smaller.
\* Ids are sequences of the digits 1..9.
RECURSIVE StrLess(_, _)
StrLess(a, b) ==
  IF b = <<>> THEN FALSE
  ELSE IF a = <<>> THEN TRUE
  ELSE IF Head(a) # Head(b) THEN Head(a) < Head(b)
  ELSE StrLess(Tail(a), Tail(b))

\* read_lines' and the writeback's normalisation: drop trailing empty lines.
RECURSIVE TrimTrailingEmpty(_)
TrimTrailingEmpty(lines) ==
  IF lines # <<>> /\ lines[Len(lines)] = <<>>
  THEN TrimTrailingEmpty(SubSeq(lines, 1, Len(lines) - 1))
  ELSE lines

(***************************************************************************)
(* The merge engine.                                                       *)
(***************************************************************************)
\* The marker do_merge_apply writes into old_text of a coalesced update.
MERGED == <<"#", "#", "#", "M", "E", "R", "G", "E", "D", "#", "#", "#">>

\* overlaps as the plain intersection of the half-open column ranges.
overlaps_SharedColumn(a, b) ==
  IF a.line # b.line THEN FALSE
  ELSE IF a.old_text = <<>> /\ b.old_text = <<>> /\ a.cs = b.cs THEN TRUE
  ELSE \E c \in 0..(a.cs + Len(a.old_text)) :
         /\ a.cs <= c /\ c < a.cs + Len(a.old_text)
         /\ b.cs <= c /\ c < b.cs + Len(b.old_text)

overlaps(a, b) ==
  IF a.line # b.line THEN FALSE
  ELSE IF a.old_text = <<>> /\ b.old_text = <<>> /\ a.cs = b.cs THEN TRUE
  ELSE LET a_end == a.cs + Len(a.old_text)
           b_end == b.cs + Len(b.old_text)
       IN  ~(a_end <= b.cs \/ b_end <= a.cs)

\* newer_wins with the tie broken towards the larger uid.
newer_wins_LargerUid(a, b) ==
  IF a.ts # b.ts THEN a.ts > b.ts ELSE StrLess(b.uid, a.uid)

newer_wins(a, b) ==
  IF a.ts # b.ts THEN a.ts > b.ts ELSE StrLess(a.uid, b.uid)

\* The engine without chain merging (no update continues another).
IsContinuation_Never(ui, uj) == FALSE

\* The test of the chain-merging loop: j continues i.

IsContinuation(ui, uj) ==
  /\ ui.line = uj.line
  /\ ui.uid = uj.uid
  /\ ui.new_text = uj.old_text
  /\ ui.cs = uj.cs

\* The inner loop of chain merging, from index j (1-based) for a fixed i.
RECURSIVE ChainInner(_, _, _)
ChainInner(all, i, j) ==
  IF j > Len(all) THEN all
  ELSE IF IsContinuation(all[i], all[j])
       THEN ChainInner([all EXCEPT ![i].new_text = all[j].new_text,
                                   ![i].ts = all[j].ts,
                                   ![j].old_text = MERGED], i, j + 1)
       ELSE ChainInner(all, i, j + 1)

RECURSIVE ChainOuter(_, _)
ChainOuter(all, i) ==
  IF i > Len(all) THEN all
  ELSE ChainOuter(ChainInner(all, i, i + 1), i + 1)

\* Step 2a of do_merge_apply: the list after chain merging.
ChainMerge(all) == ChainOuter(all, 1)

\* The inner loop of LWW resolution for a fixed live, unmerged i: the alive
\* vector after scanning j..; a lost comparison kills i and breaks.
RECURSIVE LwwInner(_, _, _, _)
LwwInner(all, alive, i, j) ==
  IF j > Len(all) THEN alive
  ELSE IF ~alive[j] THEN LwwInner(all, alive, i, j + 1)
  ELSE IF all[j].old_text = MERGED
       THEN LwwInner(all, [alive EXCEPT ![j] = FALSE], i, j + 1)
  ELSE IF overlaps(all[i], all[j])
       THEN IF newer_wins(all[i], all[j])
            THEN LwwInner(all, [alive EXCEPT ![j] = FALSE], i, j + 1)
            ELSE [alive EXCEPT ![i] = FALSE]
  ELSE LwwInner(all, alive, i, j + 1)

RECURSIVE LwwOuter(_, _, _)
LwwOuter(all, alive, i) ==
  IF i > Len(all) THEN alive
  ELSE IF ~alive[i] THEN LwwOuter(all, alive, i + 1)
  ELSE IF all[i].old_text = MERGED
       THEN LwwOuter(all, [alive EXCEPT ![i] = FALSE], i + 1)
  ELSE LwwOuter(all, LwwInner(all, alive, i, i + 1), i + 1)

\* Step 2b: the alive vector after LWW resolution of the chain-merged list.
Resolve(all) == LwwOuter(all, [k \in 1..Len(all) |-> TRUE], 1)

RECURSIVE SelectAlive(_, _, _)
SelectAlive(all, alive, i) ==
  IF i > Len(all) THEN <<>>
  ELSE IF alive[i] THEN <<all[i]>> \o SelectAlive(all, alive, i + 1)
       ELSE SelectAlive(all, alive, i + 1)

\* Step 3: the survivors, in input order.
Winners(all) ==
  LET merged == ChainMerge(all) IN SelectAlive(merged, Resolve(merged), 1)

\* The sort comparator of step 5: column ascending, then timestamp descending.
SortLess(a, b) == IF a.cs # b.cs THEN a.cs < b.cs ELSE a.ts > b.ts

\* All orders std::sort may leave vec in: the permutations with no inversion
\* under SortLess (the order of equivalent elements is unspecified).
SortedOrders(vec) ==
  LET n == Len(vec)
      perms == {p \in [1..n -> 1..n] : \A x, y \in 1..n : x # y => p[x] # p[y]}
      ok(p) == \A x, y \in 1..n : x < y => ~SortLess(vec[p[y]], vec[p[x]])
  IN  {[k \in 1..n |-> vec[p[k]]] : p \in {q \in perms : ok(q)}}

\* The application loop over one line's sorted updates, from the k-th.
\* cur.substr(0, adjusted_cs) clips at the end of cur (pos 0 never throws),
\* and the tail is appended only under the guard of the source.
RECURSIVE ApplySorted(_, _, _, _)
ApplySorted(cur, vec, k, offset) ==
  IF k > Len(vec) THEN cur
  ELSE LET u == vec[k]
           adjusted_cs == Max2(0, u.cs + offset)
           adjusted_ce == Min2(u.ce + offset, Len(cur) - 1)
           head == Substr(cur, 0, adjusted_cs) \o u.new_text
           new_line == IF adjusted_ce >= 0 /\ adjusted_ce + 1 < Len(cur)
                       THEN head \o SubstrFrom(cur, adjusted_ce + 1)
                       ELSE head
           offset2 == offset + (Len(u.new_text) - (adjusted_ce - adjusted_cs + 1))
       IN  ApplySorted(new_line, vec, k + 1, offset2)

\* The updates of winners on line ln, in winners' order (updates_per_line).
RECURSIVE OnLine(_, _)
OnLine(winners, ln) ==
  IF winners = <<>> THEN <<>>
  ELSE IF Head(winners).line = ln THEN <<Head(winners)>> \o OnLine(Tail(winners), ln)
       ELSE OnLine(Tail(winners), ln)

\* lines extended with empty lines up to line ln.
RECURSIVE ExtendTo(_, _)
ExtendTo(lines, ln) ==
  IF Len(lines) <= ln THEN ExtendTo(Append(lines, <<>>), ln) ELSE lines

SetMin(S) == CHOOSE x \in S : \A y \in S : x <= y

\* Step 5 over the lines still to do, in ascending line order (std::map):
\* the set of documents the loop can end with, one per admissible sort order.
RECURSIVE ApplyPerLine(_, _, _)
ApplyPerLine(lines, winners, todo) ==
  IF todo = {} THEN {lines}
  ELSE LET ln == SetMin(todo)
           ext == ExtendTo(lines, ln)
           outs == {ApplySorted(ext[ln + 1], vec, 1, 0) : vec \in SortedOrders(OnLine(winners, ln))}
       IN  UNION {ApplyPerLine([ext EXCEPT ![ln + 1] = o], winners, todo \ {ln}) : o \in outs}

\* do_merge_apply(lines, local_unmerged, recv_unmerged, self_uid) for a
\* non-empty input: the possible results [lines, changed]; changed is the
\* return value !winners.empty().  self_uid is unused by the source.
do_merge_apply(lines, local_unmerged, recv_unmerged) ==
  LET all == local_unmerged \o recv_unmerged
      winners == Winners(all)
      todo == {winners[k].line : k \in 1..Len(winners)}
  IN  {[lines |-> d, changed |-> winners # <<>>] : d \in ApplyPerLine(lines, winners, todo)}

(***************************************************************************)
(* Change synthesis: the per-line minimal-span diff of the editor loop.    *)
(***************************************************************************)
\* while (cs < max_common_left && oldL[cs] == newL[cs]) cs++
RECURSIVE CommonPrefix(_, _, _)
CommonPrefix(oldL, newL, cs) ==
  IF cs < Min2(Len(oldL), Len(newL)) /\ oldL[cs + 1] = newL[cs + 1]
  THEN CommonPrefix(oldL, newL, cs + 1)
  ELSE cs

\* a suffix scan that may run into the common prefix
RECURSIVE CommonSuffix_Overlapping(_, _, _, _)
CommonSuffix_Overlapping(oldL, newL, cs, tail) ==
  IF /\ tail < Len(oldL)
     /\ tail < Len(newL)
     /\ oldL[Len(oldL) - tail] = newL[Len(newL) - tail]
  THEN CommonSuffix_Overlapping(oldL, newL, cs, tail + 1)
  ELSE tail

\* while (tail < old_len - cs && tail < new_len - cs && old[old_len-1-tail] == new[new_len-1-tail]) tail++
RECURSIVE CommonSuffix(_, _, _, _)
CommonSuffix(oldL, newL, cs, tail) ==
  IF /\ tail < Len(oldL) - cs
     /\ tail < Len(newL) - cs
     /\ oldL[Len(oldL) - tail] = newL[Len(newL) - tail]
  THEN CommonSuffix(oldL, newL, cs, tail + 1)
  ELSE tail

\* The Change the loop populates for one changed line (oldL # newL):
\* col_start, col_end, the two middle segments and the operation type.
DiffLine(oldL, newL) ==
  LET cs == CommonPrefix(oldL, newL, 0)
      tail == CommonSuffix(oldL, newL, cs, 0)
      old_mid_len == Len(oldL) - cs - tail
      new_mid_len == Len(newL) - cs - tail
      old_seg == IF old_mid_len > 0 THEN Substr(oldL, cs, old_mid_len) ELSE <<>>
      new_seg == IF new_mid_len > 0 THEN Substr(newL, cs, new_mid_len) ELSE <<>>
  IN  [col_start |-> cs,
       col_end   |-> IF old_seg = <<>> THEN cs ELSE cs + Len(old_seg) - 1,
       old_text  |-> old_seg,
       new_text  |-> new_seg,
       type      |-> IF old_seg = <<>> /\ new_seg # <<>> THEN "insert"
                     ELSE IF old_seg # <<>> /\ new_seg = <<>> THEN "delete"
                     ELSE "replace"]

\* change_to_ext / to_ext: the merge-form update of a change.
MkExt(c, line, uid, ts) ==
  [ts |-> ts, uid |-> uid, line |-> line, cs |-> c.col_start, ce |-> c.col_end,
   op |-> c.type, old_text |-> c.old_text, new_text |-> c.new_text]

(***************************************************************************)
(* State.                                                                  *)
(***************************************************************************)
VARIABLES
  \* SpecMerge: one do_merge_apply call
  m_in,        \* the arguments of the call: [lines, local, recv]
  m_lines,     \* lines (in/out argument)
  m_local,     \* local_unmerged (in/out argument)
  m_recv,      \* recv_unmerged (in/out argument)
  m_winners,   \* the survivors collected by the call
  m_changed,   \* the return value
  m_phase,     \* "call" before the call, "ret" after it
  \* SpecRegistry: the shared segment and the registering processes
  seg,         \* seg[i]: slot i = [active, user_id, queue_name]
  r_pc,        \* r_pc[p]: where process p is in registry_register
  r_i,         \* r_i[p]: its loop index i
  r_k,         \* r_k[p]: bytes of user_id its snprintf has stored
  r_assigned,  \* r_assigned[p]: assigned_index
  r_rc,        \* r_rc[p]: the return value (1 while running)
  r_uid,       \* r_uid[p]: the user_id argument of process p's calls
  r_seg0,      \* the segment as the processes found it (history)
  \* SpecRing: one RingBuffer, its producer and its consumer
  head,        \* std::atomic<size_t> head
  tail,        \* std::atomic<size_t> tail
  data,        \* T data[CAP]; an element is copied in two halves
  pu_pc,       \* where the producer is in push
  pu_h,        \* push: local h
  pu_next,     \* the number of the next message the producer pushes
  po_pc,       \* where the consumer is in pop
  po_t,        \* pop: local t
  po_out,      \* pop: the out parameter
  pushed,      \* history: the messages whose push returned true
  popped,      \* history: the values pop returned with true
  \* Spec: the editors, their files, queues and receive rings
  now,         \* wall clock in seconds (st_mtime of a write)
  clock,       \* steady clock read by now_ns
  saves,       \* saves the users have made
  file,        \* file[p]: the lines of <user_id>_doc.txt
  mtime,       \* mtime[p]: st_mtime of the file
  unread,      \* history: the user saved and read_lines has not run since
  after_merge, \* history: after_merge[p]: "clean" since the last merge writeback,
               \* "saved" once the user has saved, "seen" once the loop saw it
  pc,          \* pc[p]: where the loop of editor p is
  last_mtime,  \* last_mtime[p]
  prev_lines,  \* prev_lines[p]
  merge_baseline, \* merge_baseline[p]
  local_ops,   \* local_ops[p]: messages waiting for broadcast
  local_unmerged, \* local_unmerged[p]
  recv_unmerged,  \* recv_unmerged[p]
  should_merge,   \* should_merge[p]
  local_dirty,    \* local_dirty[p]
  just_merged,    \* just_merged[p]
  changed,        \* changed[p]: what the last do_merge_apply returned
  mq,          \* mq[p]: the POSIX queue of p
  g_recv_buf,  \* g_recv_buf[p]: the receive ring of p, oldest first
  g_last_sender,  \* g_last_sender[p]: static char g_last_sender[]
  last_sender_by, \* history: the threads of p that stored to g_last_sender
  synth,       \* history: the messages p has synthesized
  delivered,   \* history: the messages p has drained from its ring
  \* SpecBroadcast: the broadcast block of the loop, one mq_send at a time
  users,       \* users[p]: p's copy of the active registry entries
  idx,         \* idx[p]: index of the user the outer loop is at
  op_it,       \* op_it[p]: entries of local_ops the inner loop has passed
  count,       \* count[p]: sends that succeeded for the current user
  peer_up,     \* peer_up[p]: p is running and its queue exists
  batch,       \* history: local_ops[p] when the broadcast began
  kept,        \* history: local_unmerged[p] when the broadcast began
  sent         \* history: sent[p][q]: what mq_send has put on q's queue

mergeVars == <<m_in, m_lines, m_local, m_recv, m_winners, m_changed, m_phase>>
regArgs == <<r_uid, r_seg0>>
regVars == <<seg, r_pc, r_i, r_k, r_assigned, r_rc, regArgs>>

ringVars == <<head, tail, data, pu_pc, pu_h, pu_next, po_pc, po_t, po_out,
              pushed, popped>>

fileVars == <<now, saves, file, mtime, unread, after_merge>>
loopVars == <<clock, pc, last_mtime, prev_lines, merge_baseline, local_ops,
              local_unmerged, recv_unmerged, should_merge, local_dirty,
              just_merged, changed, synth, delivered>>
senderVars == <<g_last_sender, last_sender_by>>
netVars == <<mq, g_recv_buf, senderVars>>
editorVars == <<fileVars, loopVars, netVars>>

bcastVars == <<users, idx, op_it, count, peer_up, batch, kept, sent>>

vars == <<mergeVars, regVars, ringVars, editorVars, bcastVars>>

notMergeVars == <<regVars, ringVars, editorVars, bcastVars>>
notRegVars == <<mergeVars, ringVars, editorVars, bcastVars>>
notRingVars == <<mergeVars, regVars, editorVars, bcastVars>>
notEditorVars == <<mergeVars, regVars, ringVars, bcastVars>>

\* The variables of the machines a specification does not run.
IdleMerge ==
  /\ m_in = [lines |-> <<>>, local |-> <<>>, recv |-> <<>>]
  /\ m_lines = <<>> /\ m_local = <<>> /\ m_recv = <<>>
  /\ m_winners = <<>> /\ m_changed = FALSE /\ m_phase = "idle"

IdleRegistry ==
  /\ seg = <<>> /\ r_pc = <<>> /\ r_i = <<>> /\ r_k = <<>>
  /\ r_assigned = <<>> /\ r_rc = <<>>
  /\ r_uid = <<>> /\ r_seg0 = <<>>

IdleRing ==
  /\ head = 0 /\ tail = 0 /\ data = <<>>
  /\ pu_pc = "off" /\ pu_h = 0 /\ pu_next = 0
  /\ po_pc = "off" /\ po_t = 0 /\ po_out = <<>>
  /\ pushed = <<>> /\ popped = <<>>

IdleBroadcast ==
  /\ users = <<>> /\ idx = <<>> /\ op_it = <<>> /\ count = <<>>
  /\ peer_up = <<>> /\ batch = <<>> /\ kept = <<>> /\ sent = <<>>

IdleEditors ==
  /\ now = 0 /\ clock = 0 /\ saves = 0
  /\ file = <<>> /\ mtime = <<>> /\ unread = <<>> /\ after_merge = <<>>
  /\ pc = <<>>
  /\ last_mtime = <<>> /\ prev_lines = <<>> /\ merge_baseline = <<>>
  /\ local_ops = <<>> /\ local_unmerged = <<>> /\ recv_unmerged = <<>>
  /\ should_merge = <<>> /\ local_dirty = <<>> /\ just_merged = <<>>
  /\ changed = <<>>
  /\ mq = <<>> /\ g_recv_buf = <<>> /\ synth = <<>> /\ delivered = <<>>
  /\ g_last_sender = <<>> /\ last_sender_by = <<>>

(***************************************************************************)
(* SpecMerge: do_merge_apply on bounded inputs.                            *)
(***************************************************************************)
\* The characters of the lines SpecMerge edits.
MergeAlphabet == {"a", "b"}

\* All texts of at most n characters.
Texts(n) == UNION {[1..k -> MergeAlphabet] : k \in 0..n}

\* The user ids of SpecMerge: "12" and "2" ("12" < "2" as strings).
MergeUids == {<<1, 2>>, <<2>>}

\* Timestamps of SpecMerge's operations.
MaxMergeTs == 2

\* The operations the editor loop can synthesize between two lines of at most
\* MaxLineLen characters, on line 0 or on line 1, by uid at time ts.
MergeOpsOf(uid) ==
  {MkExt(DiffLine(pr[1], pr[2]), ln, uid, ts) :
     pr \in {q \in Texts(MaxLineLen) \X Texts(MaxLineLen) : q[1] # q[2]},
     ln \in 0..1, ts \in 1..MaxMergeTs}

\* Lists of at most n operations all by uid, in emission order (the clock is
\* strictly monotonic, so timestamps increase along the list).
OpListsOf(uid, n) ==
  {l \in UNION {[1..k -> MergeOpsOf(uid)] : k \in 0..n} :
     \A x, y \in 1..Len(l) : x < y => l[x].ts < l[y].ts}

\* local_unmerged holds the peer's own operations, recv_unmerged those of
\* another peer; the baseline is a document as read_lines returns it (one line,
\* or none).
InitMerge ==
  \E self \in MergeUids, other \in MergeUids, base \in Texts(MaxLineLen) :
    /\ other # self
    /\ m_local \in OpListsOf(self, MaxMergeOps)
    /\ m_recv \in OpListsOf(other, MaxMergeOps - Len(m_local))
    /\ m_lines = TrimTrailingEmpty(<<base>>)
    /\ m_in = [lines |-> m_lines, local |-> m_local, recv |-> m_recv]
    /\ m_winners = <<>>
    /\ m_changed = FALSE
    /\ m_phase = "call"
    /\ IdleRegistry /\ IdleRing /\ IdleEditors /\ IdleBroadcast

\* local_unmerged.clear(); recv_unmerged.clear();
Cleared_Kept(buf) == buf

Cleared(buf) == <<>>

\* bool changed = do_merge_apply(lines_copy, local_unmerged, recv_unmerged, uid)
MergeApply ==
  /\ m_phase = "call"
  /\ m_phase' = "ret"
  /\ m_in' = m_in
  /\ IF m_local = <<>> /\ m_recv = <<>>
     THEN /\ m_changed' = FALSE
          /\ UNCHANGED <<m_lines, m_local, m_recv, m_winners>>
     ELSE /\ \E r \in do_merge_apply(m_lines, m_local, m_recv) :
               /\ m_lines' = r.lines
               /\ m_changed' = r.changed
          /\ m_winners' = Winners(m_local \o m_recv)
          /\ m_local' = Cleared(m_local)
          /\ m_recv' = Cleared(m_recv)
  /\ UNCHANGED notMergeVars

NextMerge == MergeApply

SpecMerge == InitMerge /\ [][NextMerge]_vars

(***************************************************************************)
(* SpecChain: do_merge_apply on the operations one peer emits for          *)
(* successive saves of one line.                                           *)
(***************************************************************************)
\* saves of the line, that is operations in the list
MaxChain == 3

\* The operations the loop synthesizes when line ln goes through the texts
\* t[0], t[1], ..., t[n], one save per detection pass.
EmittedFor(t, n, ln, uid) ==
  [k \in 1..n |-> MkExt(DiffLine(t[k - 1], t[k]), ln, uid, k)]

\* One peer's emitted operations, all held as local_unmerged or all as
\* recv_unmerged, against any one-line baseline.
InitChain ==
  \E uid \in MergeUids, ln \in 0..1, n \in 2..MaxChain, base \in Texts(MaxLineLen),
     asLocal \in BOOLEAN :
    \E t \in [0..n -> Texts(MaxLineLen)] :
      /\ \A k \in 1..n : t[k - 1] # t[k]
      /\ m_local = IF asLocal THEN EmittedFor(t, n, ln, uid) ELSE <<>>
      /\ m_recv = IF asLocal THEN <<>> ELSE EmittedFor(t, n, ln, uid)
      /\ m_lines = TrimTrailingEmpty(<<base>>)
      /\ m_in = [lines |-> m_lines, local |-> m_local, recv |-> m_recv]
      /\ m_winners = <<>>
      /\ m_changed = FALSE
      /\ m_phase = "call"
      /\ IdleRegistry /\ IdleRing /\ IdleEditors /\ IdleBroadcast

SpecChain == InitChain /\ [][NextMerge]_vars

(***************************************************************************)
(* SpecRegistry: processes with distinct user ids call registry_register   *)
(* concurrently on a freshly initialized segment.  One step is one access  *)
(* to the shared segment.  The id buffer of a slot is MaxIdLen + 1 bytes,  *)
(* 0 being NUL; snprintf stores the id left to right and then the          *)
(* terminator, and a concurrent strncmp reads whatever is stored so far.   *)
(***************************************************************************)
MAX_USERS == 5

\* processes that may register
NumRegPeers == 3
\* longest user id, in bytes
MaxIdLen == 2

RegPeers == 1..NumRegPeers

\* The user ids: "1", "12", "3", "4", ...: distinct, the first a prefix of
\* the second.
UserIdOf(p) == IF p = 1 THEN <<1>> ELSE IF p = 2 THEN <<1, 2>> ELSE <<p>>

Slots == 0..(MAX_USERS - 1)

\* The C string held by a buffer: the bytes before the first NUL.
RECURSIVE CStr(_)
CStr(buf) ==
  IF buf = <<>> \/ Head(buf) = 0 THEN <<>> ELSE <<Head(buf)>> \o CStr(Tail(buf))

\* initialize_segment: every slot free, both strings empty (the segment comes
\* zero-filled from ftruncate).
initialize_segment ==
  [i \in Slots |-> [active |-> 0,
                    user_id |-> [b \in 1..(MaxIdLen + 1) |-> 0],
                    queue_name |-> <<>>]]

\* std::strncmp(seg->users[i].user_id, user_id, USER_ID_MAX) == 0
IdMatches_Never(buf, uid) == FALSE
IdMatches(buf, uid) == CStr(buf) = uid

\* __sync_bool_compare_and_swap(active_ptr, 0, 1): succeeds on a free slot
CasSucceeds_Always(active) == TRUE
CasSucceeds(active) == active = 0

InitRegistry ==
  /\ seg = initialize_segment
  /\ \E callers \in (SUBSET RegPeers) \ {{}} :
       r_pc = [p \in RegPeers |-> IF p \in callers THEN "scan" ELSE "off"]
  /\ r_i = [p \in RegPeers |-> 0]
  /\ r_k = [p \in RegPeers |-> 0]
  /\ r_assigned = [p \in RegPeers |-> -1]
  /\ r_rc = [p \in RegPeers |-> 1]
  /\ r_uid = [p \in RegPeers |-> UserIdOf(p)]
  /\ r_seg0 = initialize_segment
  /\ IdleMerge /\ IdleRing /\ IdleEditors /\ IdleBroadcast

\* Second loop, __sync_bool_compare_and_swap(active_ptr, 0, 1) succeeds on
\* slot i.
CasClaim(p) ==
  /\ r_pc[p] = "claim"
  /\ CasSucceeds(seg[r_i[p]].active)
  /\ seg' = [seg EXCEPT ![r_i[p]].active = 1]
  /\ r_pc' = [r_pc EXCEPT ![p] = "write_id"]
  /\ r_k' = [r_k EXCEPT ![p] = 0]
  /\ UNCHANGED <<r_i, r_assigned, r_rc>>
  /\ UNCHANGED <<regArgs, notRegVars>>

\* First loop, slot i is active and holds this user id: overwrite its queue
\* name and return the slot.
RegScanMatch(p) ==
  /\ r_pc[p] = "scan"
  /\ seg[r_i[p]].active = 1
  /\ IdMatches(seg[r_i[p]].user_id, r_uid[p])
  /\ seg' = [seg EXCEPT ![r_i[p]].queue_name = r_uid[p]]
  /\ r_assigned' = [r_assigned EXCEPT ![p] = r_i[p]]
  /\ r_rc' = [r_rc EXCEPT ![p] = 0]
  /\ r_pc' = [r_pc EXCEPT ![p] = "done"]
  /\ UNCHANGED <<r_i, r_k>>
  /\ UNCHANGED <<regArgs, notRegVars>>

\* First loop, slot i does not match: next slot, or on to the second loop.
RegScanNext(p) ==
  /\ r_pc[p] = "scan"
  /\ ~(seg[r_i[p]].active = 1 /\ IdMatches(seg[r_i[p]].user_id, r_uid[p]))
  /\ IF r_i[p] + 1 < MAX_USERS
     THEN /\ r_i' = [r_i EXCEPT ![p] = r_i[p] + 1]
          /\ UNCHANGED r_pc
     ELSE /\ r_i' = [r_i EXCEPT ![p] = 0]
          /\ r_pc' = [r_pc EXCEPT ![p] = "claim"]
  /\ UNCHANGED <<seg, r_k, r_assigned, r_rc>>
  /\ UNCHANGED <<regArgs, notRegVars>>

\* Second loop, the CAS on slot i fails: next slot, or return -4 (no slots).
RegClaimNext(p) ==
  /\ r_pc[p] = "claim"
  /\ ~CasSucceeds(seg[r_i[p]].active)
  /\ IF r_i[p] + 1 < MAX_USERS
     THEN /\ r_i' = [r_i EXCEPT ![p] = r_i[p] + 1]
          /\ UNCHANGED <<r_pc, r_rc>>
     ELSE /\ r_pc' = [r_pc EXCEPT ![p] = "done"]
          /\ r_rc' = [r_rc EXCEPT ![p] = -4]
          /\ UNCHANGED r_i
  /\ UNCHANGED <<seg, r_k, r_assigned>>
  /\ UNCHANGED <<regArgs, notRegVars>>

\* snprintf(user_id, USER_ID_MAX, "%s", user_id): one byte per step, the
\* terminator last.
RegWriteId(p) ==
  /\ r_pc[p] = "write_id"
  /\ LET id == r_uid[p]
         k == r_k[p]
     IN  IF k < Len(id)
         THEN /\ seg' = [seg EXCEPT ![r_i[p]].user_id[k + 1] = id[k + 1]]
              /\ r_k' = [r_k EXCEPT ![p] = k + 1]
              /\ UNCHANGED r_pc
         ELSE /\ seg' = [seg EXCEPT ![r_i[p]].user_id[k + 1] = 0]
              /\ r_pc' = [r_pc EXCEPT ![p] = "write_qn"]
              /\ UNCHANGED r_k
  /\ UNCHANGED <<r_i, r_assigned, r_rc>>
  /\ UNCHANGED <<regArgs, notRegVars>>

\* snprintf(queue_name, ...); assigned_index = i; return 0.  The queue name
\* "/queue_<id>" is represented by the id.
RegWriteQueueName(p) ==
  /\ r_pc[p] = "write_qn"
  /\ seg' = [seg EXCEPT ![r_i[p]].queue_name = r_uid[p]]
  /\ r_assigned' = [r_assigned EXCEPT ![p] = r_i[p]]
  /\ r_rc' = [r_rc EXCEPT ![p] = 0]
  /\ r_pc' = [r_pc EXCEPT ![p] = "done"]
  /\ UNCHANGED <<r_i, r_k>>
  /\ UNCHANGED <<regArgs, notRegVars>>

registry_register(p) ==
  \/ RegScanMatch(p)
  \/ RegScanNext(p)
  \/ CasClaim(p)
  \/ RegClaimNext(p)
  \/ RegWriteId(p)
  \/ RegWriteQueueName(p)

NextRegistry == \E p \in RegPeers : registry_register(p)

SpecRegistry == InitRegistry /\ [][NextRegistry]_vars

(***************************************************************************)
(* SpecRing: RingBuffer<T, CAP> with its single producer (the listener     *)
(* thread calling push) and its single consumer (the main loop calling     *)
(* pop).  One step is one access to head, tail or data; the copy of an     *)
(* element is two steps, one per half, so that a torn copy is observable.  *)
(* Message number v is the element [lo |-> v, hi |-> v].                   *)
(***************************************************************************)
\* slots of the ring (the program's instance has 128)
CAP == 3
\* messages the producer offers
MaxPush == 6

Msg(v) == [lo |-> v, hi |-> v]

\* push: n == tail, the ring is full
RingFull_Never(n, t) == FALSE

\* a producer that refuses one slot too early
RingFull_OneEarly(n, t) == n = t \/ (n + 1) % CAP = t

RingFull(n, t) == n = t

\* g_recv_buf.push(msg); the result is ignored and the loop goes on to the
\* next mq_receive: the message offered after a refused one is the next one.
AfterRefusal_Retry(v) == v

AfterRefusal(v) == v + 1

\* pop: t == head, the ring is empty
RingEmpty(t, h) == t = h

InitRing ==
  /\ head = 0 /\ tail = 0
  /\ data = [i \in 0..(CAP - 1) |-> Msg(0)]
  /\ pu_pc = "idle" /\ pu_h = 0 /\ pu_next = 1
  /\ po_pc = "idle" /\ po_t = 0 /\ po_out = Msg(0)
  /\ pushed = <<>> /\ popped = <<>>
  /\ IdleMerge /\ IdleRegistry /\ IdleEditors /\ IdleBroadcast

\* size_t h = head.load(relaxed);
push_LoadHead ==
  /\ pu_pc = "idle"
  /\ pu_next <= MaxPush
  /\ pu_h' = head
  /\ pu_pc' = "check"
  /\ UNCHANGED <<head, tail, data, pu_next, po_pc, po_t, po_out, pushed, popped>>
  /\ UNCHANGED notRingVars

\* if (n == tail.load(acquire)) return false;
push_Full ==
  /\ pu_pc = "check"
  /\ RingFull((pu_h + 1) % CAP, tail)
  /\ pu_pc' = "idle"
  /\ pu_next' = AfterRefusal(pu_next)
  /\ UNCHANGED <<head, tail, data, pu_h, po_pc, po_t, po_out, pushed, popped>>
  /\ UNCHANGED notRingVars

\* data[h] = v; first half
push_CopyLo ==
  /\ pu_pc = "check"
  /\ ~RingFull((pu_h + 1) % CAP, tail)
  /\ data' = [data EXCEPT ![pu_h].lo = pu_next]
  /\ pu_pc' = "copy"
  /\ UNCHANGED <<head, tail, pu_h, pu_next, po_pc, po_t, po_out, pushed, popped>>
  /\ UNCHANGED notRingVars

\* data[h] = v; second half
push_CopyHi ==
  /\ pu_pc = "copy"
  /\ data' = [data EXCEPT ![pu_h].hi = pu_next]
  /\ pu_pc' = "store"
  /\ UNCHANGED <<head, tail, pu_h, pu_next, po_pc, po_t, po_out, pushed, popped>>
  /\ UNCHANGED notRingVars

\* head.store(n, release); return true;
push_StoreHead ==
  /\ pu_pc = "store"
  /\ head' = (pu_h + 1) % CAP
  /\ pushed' = Append(pushed, pu_next)
  /\ pu_next' = pu_next + 1
  /\ pu_pc' = "idle"
  /\ UNCHANGED <<tail, data, pu_h, po_pc, po_t, po_out, popped>>
  /\ UNCHANGED notRingVars

push == push_LoadHead \/ push_Full \/ push_CopyLo \/ push_CopyHi \/ push_StoreHead

\* size_t t = tail.load(relaxed);
pop_LoadTail ==
  /\ po_pc = "idle"
  /\ po_t' = tail
  /\ po_pc' = "check"
  /\ UNCHANGED <<head, tail, data, pu_pc, pu_h, pu_next, po_out, pushed, popped>>
  /\ UNCHANGED notRingVars

\* if (t == head.load(acquire)) return false;
pop_Empty ==
  /\ po_pc = "check"
  /\ RingEmpty(po_t, head)
  /\ po_pc' = "idle"
  /\ UNCHANGED <<head, tail, data, pu_pc, pu_h, pu_next, po_t, po_out, pushed, popped>>
  /\ UNCHANGED notRingVars

\* out = data[t]; first half
pop_CopyLo ==
  /\ po_pc = "check"
  /\ ~RingEmpty(po_t, head)
  /\ po_out' = [po_out EXCEPT !.lo = data[po_t].lo]
  /\ po_pc' = "copy"
  /\ UNCHANGED <<head, tail, data, pu_pc, pu_h, pu_next, po_t, pushed, popped>>
  /\ UNCHANGED notRingVars

\* out = data[t]; second half
pop_CopyHi ==
  /\ po_pc = "copy"
  /\ po_out' = [po_out EXCEPT !.hi = data[po_t].hi]
  /\ po_pc' = "store"
  /\ UNCHANGED <<head, tail, data, pu_pc, pu_h, pu_next, po_t, pushed, popped>>
  /\ UNCHANGED notRingVars

\* tail.store((t + 1) % CAP, release); return true;
pop_StoreTail ==
  /\ po_pc = "store"
  /\ tail' = (po_t + 1) % CAP
  /\ popped' = Append(popped, po_out)
  /\ po_pc' = "idle"
  /\ UNCHANGED <<head, data, pu_pc, pu_h, pu_next, po_t, po_out, pushed>>
  /\ UNCHANGED notRingVars

pop == pop_LoadTail \/ pop_Empty \/ pop_CopyLo \/ pop_CopyHi \/ pop_StoreTail

NextRing == push \/ pop

SpecRing == InitRing /\ [][NextRing]_vars

(***************************************************************************)
(* Spec: the editors end to end.  Every peer is registered and starts from *)
(* the same document; a user saves its file at any moment; the loop of an  *)
(* editor runs in the steps between which the file, the queue or the ring  *)
(* can change under it; the listener thread moves one message at a time    *)
(* from the queue to the ring.                                             *)
(***************************************************************************)
N_MERGE == 5
N_BROADCAST == 5
\* attr.mq_maxmsg
MQ_MAXMSG == 10
\* RingBuffer<UpdateMessage, 128>: at most 127 elements are held
RECV_CAP == 128

\* editors running
NumPeers == 2
\* saves the users make in total
MaxSaves == 2
\* seconds the wall clock advances
MaxNow == 1

Peers == 1..NumPeers

\* The document every peer starts from: five one-character lines.
InitialDoc == << <<"o">>, <<"o">>, <<"o">>, <<"o">>, <<"o">> >>

\* What the user of p types over a line.
Letters == <<"a", "b", "c", "d", "e">>
LetterOf(p) == <<Letters[p]>>

\* The lines one save rewrites: the first line, or every line.
EditSets == {{1}, 1..Len(InitialDoc)}

\* read_lines: the lines of the file without trailing empty lines.
read_lines(f) == TrimTrailingEmpty(f)

\* The Changes of one detection pass, in the order the loop buffers them:
\* changed common lines, then added lines, then removed lines.
RECURSIVE CommonChanges(_, _, _)
CommonChanges(prev, new, i) ==
  IF i >= Min2(Len(prev), Len(new)) THEN <<>>
  ELSE LET c == DiffLine(prev[i + 1], new[i + 1])
           here == IF prev[i + 1] = new[i + 1] \/ c.old_text = c.new_text
                   THEN <<>>
                   ELSE <<[line |-> i] @@ c>>
       IN  here \o CommonChanges(prev, new, i + 1)

RECURSIVE AddedChanges(_, _, _)
AddedChanges(prev, new, i) ==
  IF i >= Len(new) THEN <<>>
  ELSE LET here == IF new[i + 1] = <<>> THEN <<>>
                   ELSE <<[line |-> i, col_start |-> 0, col_end |-> 0,
                           old_text |-> <<>>, new_text |-> new[i + 1],
                           type |-> "insert"]>>
       IN  here \o AddedChanges(prev, new, i + 1)

RECURSIVE RemovedChanges(_, _, _)
RemovedChanges(prev, new, i) ==
  IF i >= Len(prev) THEN <<>>
  ELSE LET here == IF prev[i + 1] = <<>> THEN <<>>
                   ELSE <<[line |-> i, col_start |-> 0,
                           col_end |-> Len(prev[i + 1]) - 1,
                           old_text |-> prev[i + 1], new_text |-> <<>>,
                           type |-> "delete"]>>
       IN  here \o RemovedChanges(prev, new, i + 1)

DetectChanges(prev, new) ==
  CommonChanges(prev, new, 0) \o AddedChanges(prev, new, Len(prev))
    \o RemovedChanges(prev, new, Len(new))

\* to_message: the wire form of a change, stamped with its own now_ns().
to_message(c, uid, ts) ==
  [sender |-> uid, timestamp_ns |-> ts, line |-> c.line,
   col_start |-> c.col_start, col_end |-> c.col_end, op |-> c.type,
   old_text |-> c.old_text, new_text |-> c.new_text]

\* to_ext: the merge form of a received message.
to_ext(msg) ==
  [ts |-> msg.timestamp_ns, uid |-> msg.sender, line |-> msg.line,
   cs |-> msg.col_start, ce |-> msg.col_end, op |-> msg.op,
   old_text |-> msg.old_text, new_text |-> msg.new_text]

\* Per change the loop reads now_ns() three times: in to_message, in
\* change_to_ext and for last_local_op_ns.
NowReadsPerChange == 3

\* The messages pushed on local_ops for the changes cs, the clock being t.
SynthMessages(cs, uid, t) ==
  [k \in 1..Len(cs) |-> to_message(cs[k], uid, t + NowReadsPerChange * (k - 1) + 1)]

\* The updates pushed on local_unmerged for the changes cs.
SynthExts(cs, uid, t) ==
  [k \in 1..Len(cs) |->
     MkExt(cs[k], cs[k].line, uid, t + NowReadsPerChange * (k - 1) + 2)]

\* A drain loop without the test of the sender.
NotFromSelf_Unfiltered(msgs, uid) == msgs

\* The drain loop: the ring's messages that are not from uid itself.
RECURSIVE NotFromSelf(_, _)
NotFromSelf(msgs, uid) ==
  IF msgs = <<>> THEN <<>>
  ELSE (IF Head(msgs).sender = uid THEN <<>> ELSE <<Head(msgs)>>)
         \o NotFromSelf(Tail(msgs), uid)

ToExts(msgs) == [k \in 1..Len(msgs) |-> to_ext(msgs[k])]

\* if (local_ops.size() >= N_BROADCAST)
BroadcastDue_Always(n) == TRUE

BroadcastDue(n) == n >= N_BROADCAST

\* The inner send loop over local_ops for one recipient whose queue holds q,
\* run without interruption: it stops when cnt sends have succeeded; a send
\* fails when the queue holds mq_maxmsg messages, and does not count.
RECURSIVE SendBatch(_, _, _)
SendBatch(q, ops, cnt) ==
  IF ops = <<>> \/ cnt >= N_BROADCAST THEN q
  ELSE IF Len(q) < MQ_MAXMSG
       THEN SendBatch(Append(q, Head(ops)), Tail(ops), cnt + 1)
       ELSE SendBatch(q, Tail(ops), cnt)

\* The removal after the sends: the first N_BROADCAST entries go.
EraseSent_All(ops) == <<>>

EraseSent(ops) ==
  IF Len(ops) > N_BROADCAST THEN SubSeq(ops, N_BROADCAST + 1, Len(ops))
  ELSE <<>>

\* bool should_merge = !recv_unmerged.empty() ||
\*                     (local_unmerged.size() >= N_MERGE);
ShouldMerge_RecvOnly(recv, local) == recv # <<>>

ShouldMerge(recv, local) == recv # <<>> \/ Len(local) >= N_MERGE

\* if (should_merge && !local_dirty)
MergeGuard_IgnoreDirty(sm, dirty) == sm

MergeGuard(sm, dirty) == sm /\ ~dirty

Init ==
  /\ now = 0 /\ clock = 0 /\ saves = 0
  /\ file = [p \in Peers |-> InitialDoc]
  /\ mtime = [p \in Peers |-> 0]
  /\ unread = [p \in Peers |-> FALSE]
  /\ after_merge = [p \in Peers |-> "none"]
  /\ pc = [p \in Peers |-> "drain1"]
  /\ last_mtime = [p \in Peers |-> 0]
  /\ prev_lines = [p \in Peers |-> read_lines(InitialDoc)]
  /\ merge_baseline = [p \in Peers |-> read_lines(InitialDoc)]
  /\ local_ops = [p \in Peers |-> <<>>]
  /\ local_unmerged = [p \in Peers |-> <<>>]
  /\ recv_unmerged = [p \in Peers |-> <<>>]
  /\ should_merge = [p \in Peers |-> FALSE]
  /\ local_dirty = [p \in Peers |-> FALSE]
  /\ just_merged = [p \in Peers |-> FALSE]
  /\ changed = [p \in Peers |-> FALSE]
  /\ mq = [p \in Peers |-> <<>>]
  /\ g_recv_buf = [p \in Peers |-> <<>>]
  /\ g_last_sender = [p \in Peers |-> <<>>]
  /\ last_sender_by = [p \in Peers |-> {}]
  /\ synth = [p \in Peers |-> <<>>]
  /\ delivered = [p \in Peers |-> <<>>]
  /\ IdleMerge /\ IdleRegistry /\ IdleRing /\ IdleBroadcast

\* The wall clock reaches the next second.
Tick ==
  /\ now < MaxNow
  /\ now' = now + 1
  /\ UNCHANGED <<saves, file, mtime, unread, after_merge, loopVars, netVars>>
  /\ UNCHANGED notEditorVars

\* The user of p saves the file with some lines typed over.
UserSave(p) ==
  /\ saves < MaxSaves
  /\ \E ls \in EditSets :
       LET new == [i \in 1..Len(file[p]) |->
                     IF i \in ls THEN LetterOf(p) ELSE file[p][i]]
       IN  /\ Len(file[p]) = Len(InitialDoc)
           /\ new # file[p]
           /\ file' = [file EXCEPT ![p] = new]
  /\ mtime' = [mtime EXCEPT ![p] = now]
  /\ unread' = [unread EXCEPT ![p] = TRUE]
  /\ after_merge' = [after_merge EXCEPT ![p] = IF @ = "clean" THEN "saved" ELSE @]
  /\ saves' = saves + 1
  /\ UNCHANGED <<now, loopVars, netVars>>
  /\ UNCHANGED notEditorVars

\* std::snprintf(g_last_sender, USER_ID_MAX, "%s", msg.sender) by thread th
\* of p, once for each of msgs in turn.
StoreSender(p, th, msgs) ==
  IF msgs = <<>> THEN UNCHANGED senderVars
  ELSE /\ g_last_sender' =
            [g_last_sender EXCEPT ![p] = msgs[Len(msgs)].sender]
       /\ last_sender_by' = [last_sender_by EXCEPT ![p] = @ \cup {th}]

\* listener_thread_fn: mq_receive one message and push it on the ring (push
\* refuses it when the ring is full), then store its sender in g_last_sender.
Listener(p) ==
  /\ mq[p] # <<>>
  /\ mq' = [mq EXCEPT ![p] = Tail(mq[p])]
  /\ g_recv_buf' = [g_recv_buf EXCEPT ![p] =
       IF Len(g_recv_buf[p]) < RECV_CAP - 1
       THEN Append(g_recv_buf[p], Head(mq[p])) ELSE g_recv_buf[p]]
  /\ StoreSender(p, "listener", <<Head(mq[p])>>)
  /\ UNCHANGED <<fileVars, loopVars>>
  /\ UNCHANGED notEditorVars

\* if (st.st_mtime != last_mtime) last_mtime = st.st_mtime;
SeenMtime_Stale(st_mtime, old) == old

SeenMtime(st_mtime, old) == st_mtime

\* The first drain loop (pop everything, keep what is not from self), then
\* stat(doc_name, &st); just_merged = false; and, when st.st_mtime differs
\* from last_mtime, last_mtime = st.st_mtime and on to the diff.
DrainAndStat(p) ==
  /\ pc[p] = "drain1"
  /\ recv_unmerged' = [recv_unmerged EXCEPT ![p] =
       @ \o ToExts(NotFromSelf(g_recv_buf[p], UserIdOf(p)))]
  /\ StoreSender(p, "main", NotFromSelf(g_recv_buf[p], UserIdOf(p)))
  /\ delivered' = [delivered EXCEPT ![p] = @ \o g_recv_buf[p]]
  /\ g_recv_buf' = [g_recv_buf EXCEPT ![p] = <<>>]
  /\ just_merged' = [just_merged EXCEPT ![p] = FALSE]
  /\ IF mtime[p] # last_mtime[p]
     THEN /\ last_mtime' = [last_mtime EXCEPT ![p] = SeenMtime(mtime[p], @)]
          /\ after_merge' = [after_merge EXCEPT ![p] =
               IF @ = "none" THEN @ ELSE "seen"]
          /\ pc' = [pc EXCEPT ![p] = "diff"]
     ELSE /\ pc' = [pc EXCEPT ![p] = "check"]
          /\ UNCHANGED <<last_mtime, after_merge>>
  /\ UNCHANGED <<now, saves, file, mtime, unread, mq, clock, prev_lines, merge_baseline, local_ops,
                 local_unmerged, should_merge, local_dirty, changed, synth>>
  /\ UNCHANGED notEditorVars

\* read_lines, the line diff against prev_lines, the buffering of every
\* change on local_ops and local_unmerged, prev_lines = new_lines.
DetectAndDiff(p) ==
  /\ pc[p] = "diff"
  /\ LET new_lines == read_lines(file[p])
         cs == DetectChanges(prev_lines[p], new_lines)
         msgs == SynthMessages(cs, UserIdOf(p), clock)
     IN  /\ local_ops' = [local_ops EXCEPT ![p] = @ \o msgs]
         /\ local_unmerged' = [local_unmerged EXCEPT ![p] =
              @ \o SynthExts(cs, UserIdOf(p), clock)]
         /\ synth' = [synth EXCEPT ![p] = @ \o msgs]
         /\ clock' = clock + NowReadsPerChange * Len(cs)
         /\ prev_lines' = [prev_lines EXCEPT ![p] = new_lines]
  /\ unread' = [unread EXCEPT ![p] = FALSE]
  /\ pc' = [pc EXCEPT ![p] = "check"]
  /\ UNCHANGED <<now, saves, file, mtime, after_merge, netVars, last_mtime,
                 merge_baseline,
                 recv_unmerged, should_merge, local_dirty, just_merged,
                 changed, delivered>>
  /\ UNCHANGED notEditorVars

\* should_merge and local_dirty (a fresh stat against last_mtime); the merge
\* pass is next when the guard lets it run.
DirtyCheck(p) ==
  /\ pc[p] = "check"
  /\ LET sm == ShouldMerge(recv_unmerged[p], local_unmerged[p])
         dirty == mtime[p] # last_mtime[p]
     IN  /\ should_merge' = [should_merge EXCEPT ![p] = sm]
         /\ local_dirty' = [local_dirty EXCEPT ![p] = dirty]
         /\ pc' = [pc EXCEPT ![p] =
              IF MergeGuard(sm, dirty) THEN "merge1" ELSE "drain2"]
  /\ UNCHANGED <<fileVars, netVars, clock, last_mtime, prev_lines,
                 merge_baseline, local_ops, local_unmerged, recv_unmerged,
                 just_merged, changed, synth, delivered>>
  /\ UNCHANGED notEditorVars

\* merge_baseline = lines_copy;
NewBaseline_Stale(lines_copy, old) == old

NewBaseline(lines_copy, old) == lines_copy

\* One merge pass from merge_baseline: do_merge_apply empties both buffers;
\* when it reports a change the trimmed result is written to the file and
\* becomes prev_lines and merge_baseline.  The stat that refreshes last_mtime
\* is the next step.
MergePass(p, after) ==
  /\ \E r \in do_merge_apply(merge_baseline[p], local_unmerged[p], recv_unmerged[p]) :
       /\ changed' = [changed EXCEPT ![p] = r.changed]
       /\ IF r.changed
          THEN LET lines_copy == TrimTrailingEmpty(r.lines)
               IN  /\ file' = [file EXCEPT ![p] = lines_copy]
                   /\ mtime' = [mtime EXCEPT ![p] = now]
                   /\ unread' = [unread EXCEPT ![p] = FALSE]
                   /\ after_merge' = [after_merge EXCEPT ![p] = "clean"]
                   /\ prev_lines' = [prev_lines EXCEPT ![p] = lines_copy]
                   /\ merge_baseline' = [merge_baseline EXCEPT ![p] =
                        NewBaseline(lines_copy, @)]
          ELSE UNCHANGED <<file, mtime, unread, after_merge, prev_lines,
                           merge_baseline>>
  /\ local_unmerged' = [local_unmerged EXCEPT ![p] = Cleared(@)]
  /\ recv_unmerged' = [recv_unmerged EXCEPT ![p] = Cleared(@)]
  /\ pc' = [pc EXCEPT ![p] = after]
  /\ UNCHANGED <<now, saves, netVars, clock, last_mtime, local_ops,
                 should_merge, local_dirty, just_merged, synth, delivered>>
  /\ UNCHANGED notEditorVars

\* The first merge pass, up to the close of the written file.
Merge1(p) == pc[p] = "merge1" /\ MergePass(p, "stat1")

\* The second merge pass, up to the close of the written file.
Merge2(p) == pc[p] = "merge2" /\ MergePass(p, "stat2")

\* With N_BROADCAST operations buffered: run the send loop on the queue of
\* every other registered user and erase the first N_BROADCAST entries of
\* local_ops.  Then the loop sleeps and starts over.  (In Spec the queues
\* never fill up, so the sends of one broadcast can be taken as one step;
\* SpecBroadcast takes them one mq_send at a time.)
BroadcastAndSleep(p) ==
  /\ IF BroadcastDue(Len(local_ops[p]))
     THEN /\ mq' = [q \in Peers |->
                IF q = p THEN mq[q] ELSE SendBatch(mq[q], local_ops[p], 0)]
          /\ local_ops' = [local_ops EXCEPT ![p] = EraseSent(@)]
     ELSE UNCHANGED <<mq, local_ops>>
  /\ pc' = [pc EXCEPT ![p] = "drain1"]

\* The re-drain; got_more_after_merge && !local_dirty leads to the second
\* merge pass, anything else to the broadcast.
DrainAgain(p) ==
  /\ LET got == NotFromSelf(g_recv_buf[p], UserIdOf(p))
     IN  /\ recv_unmerged' = [recv_unmerged EXCEPT ![p] = @ \o ToExts(got)]
         /\ StoreSender(p, "main", got)
         /\ IF got # <<>> /\ ~local_dirty[p]
            THEN /\ pc' = [pc EXCEPT ![p] = "merge2"]
                 /\ UNCHANGED <<mq, local_ops>>
            ELSE BroadcastAndSleep(p)
  /\ delivered' = [delivered EXCEPT ![p] = @ \o g_recv_buf[p]]
  /\ g_recv_buf' = [g_recv_buf EXCEPT ![p] = <<>>]

\* The iteration continues without a first merge pass.
Drain2(p) ==
  /\ pc[p] = "drain2"
  /\ DrainAgain(p)
  /\ UNCHANGED <<fileVars, clock, last_mtime, prev_lines, merge_baseline,
                 local_unmerged, should_merge, local_dirty, just_merged,
                 changed, synth>>
  /\ UNCHANGED notEditorVars

\* if (stat(doc_name.c_str(), &st) == 0) last_mtime = st.st_mtime;
StatAfterWrite_Skipped(st_mtime, old) == old

StatAfterWrite(st_mtime, old) == st_mtime

\* After the first merge pass: if (changed) { last_mtime = st.st_mtime;
\* just_merged = true; } and the iteration continues.
Merge1Stat(p) ==
  /\ pc[p] = "stat1"
  /\ IF changed[p]
     THEN /\ last_mtime' = [last_mtime EXCEPT ![p] =
               StatAfterWrite(mtime[p], @)]
          /\ just_merged' = [just_merged EXCEPT ![p] = TRUE]
     ELSE UNCHANGED <<last_mtime, just_merged>>
  /\ DrainAgain(p)
  /\ UNCHANGED <<fileVars, clock, prev_lines, merge_baseline, local_unmerged,
                 should_merge, local_dirty, changed, synth>>
  /\ UNCHANGED notEditorVars

\* After the second merge pass: if (changed2) last_mtime = st.st_mtime; then
\* the broadcast.
Merge2Stat(p) ==
  /\ pc[p] = "stat2"
  /\ last_mtime' = [last_mtime EXCEPT ![p] =
       IF changed[p] THEN StatAfterWrite(mtime[p], @) ELSE last_mtime[p]]
  /\ BroadcastAndSleep(p)
  /\ UNCHANGED <<fileVars, g_recv_buf, senderVars, clock, prev_lines,
                 merge_baseline,
                 local_unmerged, recv_unmerged, should_merge, local_dirty,
                 just_merged, changed, synth, delivered>>
  /\ UNCHANGED notEditorVars

\* One step of the loop of editor p.  The loop is cut into steps where the
\* user or the listener can change what the following code reads.
EditorLoop(p) ==
  \/ DrainAndStat(p)
  \/ DetectAndDiff(p)
  \/ DirtyCheck(p)
  \/ Merge1(p)
  \/ Merge1Stat(p)
  \/ Drain2(p)
  \/ Merge2(p)
  \/ Merge2Stat(p)

Next ==
  \/ Tick
  \/ \E p \in Peers : UserSave(p)
  \/ \E p \in Peers : Listener(p)
  \/ \E p \in Peers : EditorLoop(p)

Spec == Init /\ [][Next]_vars

\* The values pc[p] takes.
LoopPcs == {"drain1", "diff", "check", "merge1", "stat1", "drain2", "merge2",
            "stat2"}

\* The loop of p takes its next step.  Every step of EditorLoop(p) changes
\* pc[p], nothing else does, and at every pc[p] a step of the loop is
\* possible.
LoopAdvances(p) == \E v \in LoopPcs \ {pc[p]} : pc' = [pc EXCEPT ![p] = v]

\* The loop of every editor keeps polling (it sleeps two seconds and starts
\* over) and every listener thread keeps receiving; the users are free to
\* stop saving.
FairSpec ==
  /\ Spec
  /\ \A p \in Peers : WF_pc(LoopAdvances(p)) /\ WF_vars(Listener(p))

(***************************************************************************)
(* SpecInsert: the editors end to end, the users inserting text.           *)
(***************************************************************************)
\* The document of SpecInsert: two lines "oo" and eight lines "o".
InsertDoc ==
  [i \in 1..10 |-> IF i <= 2 THEN <<"o", "o">> ELSE <<"o">>]

\* What the user of p saves from the content f: user 1 appends a letter at
\* the end of line 0 and types over lines 2..5; user 2 puts a letter at
\* column 0 of line 1 and types over lines 6..9.  Five changed lines each.
InsertEdit(p, f) ==
  [i \in 1..Len(f) |->
     IF p = 1 THEN (IF i = 1 THEN f[i] \o LetterOf(p)
                    ELSE IF i \in 3..6 THEN LetterOf(p) ELSE f[i])
     ELSE (IF i = 2 THEN LetterOf(p) \o f[i]
           ELSE IF i \in 7..10 THEN LetterOf(p) ELSE f[i])]

InitInsert ==
  /\ now = 0 /\ clock = 0 /\ saves = 0
  /\ file = [p \in Peers |-> InsertDoc]
  /\ mtime = [p \in Peers |-> 0]
  /\ unread = [p \in Peers |-> FALSE]
  /\ after_merge = [p \in Peers |-> "none"]
  /\ pc = [p \in Peers |-> "drain1"]
  /\ last_mtime = [p \in Peers |-> 0]
  /\ prev_lines = [p \in Peers |-> read_lines(InsertDoc)]
  /\ merge_baseline = [p \in Peers |-> read_lines(InsertDoc)]
  /\ local_ops = [p \in Peers |-> <<>>]
  /\ local_unmerged = [p \in Peers |-> <<>>]
  /\ recv_unmerged = [p \in Peers |-> <<>>]
  /\ should_merge = [p \in Peers |-> FALSE]
  /\ local_dirty = [p \in Peers |-> FALSE]
  /\ just_merged = [p \in Peers |-> FALSE]
  /\ changed = [p \in Peers |-> FALSE]
  /\ mq = [p \in Peers |-> <<>>]
  /\ g_recv_buf = [p \in Peers |-> <<>>]
  /\ g_last_sender = [p \in Peers |-> <<>>]
  /\ last_sender_by = [p \in Peers |-> {}]
  /\ synth = [p \in Peers |-> <<>>]
  /\ delivered = [p \in Peers |-> <<>>]
  /\ IdleMerge /\ IdleRegistry /\ IdleRing /\ IdleBroadcast

\* The user of p (1 or 2) saves the file with its insertion, once.
UserInsert(p) ==
  /\ saves < MaxSaves
  /\ p <= 2
  /\ Len(file[p]) = Len(InsertDoc)
  /\ \A k \in 1..Len(file[p][p]) : <<file[p][p][k]>> # LetterOf(p)
  /\ file' = [file EXCEPT ![p] = InsertEdit(p, file[p])]
  /\ mtime' = [mtime EXCEPT ![p] = now]
  /\ unread' = [unread EXCEPT ![p] = TRUE]
  /\ after_merge' = [after_merge EXCEPT ![p] = IF @ = "clean" THEN "saved" ELSE @]
  /\ saves' = saves + 1
  /\ UNCHANGED <<now, loopVars, netVars>>
  /\ UNCHANGED notEditorVars

NextInsert ==
  \/ Tick
  \/ \E p \in Peers : UserInsert(p)
  \/ \E p \in Peers : Listener(p)
  \/ \E p \in Peers : EditorLoop(p)

SpecInsert == InitInsert /\ [][NextInsert]_vars

(***************************************************************************)
(* SpecDiff: one detection pass over a changed line.                       *)
(***************************************************************************)
\* longest line SpecDiff draws
MaxDiffLen == 3

\* The example of the minimal-span diff: "int x = 10;" becomes "int x = 42;".
ExampleOld == <<"i", "n", "t", " ", "x", " ", "=", " ", "1", "0", ";">>
ExampleNew == <<"i", "n", "t", " ", "x", " ", "=", " ", "4", "2", ";">>

\* The pairs (line before, line after) SpecDiff draws.
DiffPairs ==
  (Texts(MaxDiffLen) \X Texts(MaxDiffLen)) \cup {<<ExampleOld, ExampleNew>>}

\* A document whose line 0 is l; line 1 keeps l from being a trailing empty
\* line.
DiffDoc(l) == <<l, <<"z">>>>

\* Every editor has last seen line 0 as pr[1], its user has saved it as
\* pr[2], and the loop has noticed the new st_mtime.
InitDiff ==
  /\ \E pr \in DiffPairs :
       /\ file = [p \in Peers |-> DiffDoc(pr[2])]
       /\ prev_lines = [p \in Peers |-> read_lines(DiffDoc(pr[1]))]
       /\ merge_baseline = [p \in Peers |-> read_lines(DiffDoc(pr[1]))]
  /\ now = 1 /\ clock = 0 /\ saves = 1
  /\ mtime = [p \in Peers |-> 1]
  /\ unread = [p \in Peers |-> TRUE]
  /\ after_merge = [p \in Peers |-> "none"]
  /\ pc = [p \in Peers |-> "diff"]
  /\ last_mtime = [p \in Peers |-> 1]
  /\ local_ops = [p \in Peers |-> <<>>]
  /\ local_unmerged = [p \in Peers |-> <<>>]
  /\ recv_unmerged = [p \in Peers |-> <<>>]
  /\ should_merge = [p \in Peers |-> FALSE]
  /\ local_dirty = [p \in Peers |-> FALSE]
  /\ just_merged = [p \in Peers |-> FALSE]
  /\ changed = [p \in Peers |-> FALSE]
  /\ mq = [p \in Peers |-> <<>>]
  /\ g_recv_buf = [p \in Peers |-> <<>>]
  /\ g_last_sender = [p \in Peers |-> <<>>]
  /\ last_sender_by = [p \in Peers |-> {}]
  /\ synth = [p \in Peers |-> <<>>]
  /\ delivered = [p \in Peers |-> <<>>]
  /\ IdleMerge /\ IdleRegistry /\ IdleRing /\ IdleBroadcast

NextDiff == \E p \in Peers : DetectAndDiff(p)

SpecDiff == InitDiff /\ [][NextDiff]_vars

(***************************************************************************)
(* SpecBroadcast: the broadcast block of the loop, one mq_send at a time,  *)
(* with the listeners of the recipients running and peers leaving.         *)
(***************************************************************************)
\* entries local_ops can hold when the broadcast step is reached
MaxPending == 7

\* Messages a queue holds from earlier broadcasts when this one begins.
Backlogs == {0, MQ_MAXMSG - 1, MQ_MAXMSG}

\* A document of n lines, each holding the text t.
DocOf(n, t) == [i \in 1..n |-> t]

\* n messages of p left in a queue by earlier broadcasts.
EarlierOps(p, n) ==
  SynthMessages(DetectChanges(DocOf(n, <<"x">>), DocOf(n, <<"o">>)),
                UserIdOf(p), 0)

\* n messages of p waiting on local_ops, synthesized after those.
PendingOps(p, n) ==
  SynthMessages(DetectChanges(DocOf(n, <<"o">>), DocOf(n, LetterOf(p))),
                UserIdOf(p), NowReadsPerChange * MQ_MAXMSG)

\* The merge form of the same operations.
PendingExts(p, n) ==
  SynthExts(DetectChanges(DocOf(n, <<"o">>), DocOf(n, LetterOf(p))),
            UserIdOf(p), NowReadsPerChange * MQ_MAXMSG)

\* A user_id buffer holding the string uid.
IdBuf(uid) == [b \in 1..(MaxIdLen + 1) |-> IF b <= Len(uid) THEN uid[b] ELSE 0]

\* The slot of a peer that has registered (queue "/queue_<uid>" is written
\* as its uid), and of one that has claimed its slot and not yet written its
\* queue name.
RegisteredSlot(p) ==
  [active |-> 1, user_id |-> IdBuf(UserIdOf(p)), queue_name |-> UserIdOf(p)]
ClaimedSlot(p) ==
  [active |-> 1, user_id |-> IdBuf(UserIdOf(p)), queue_name |-> <<>>]

\* registry_list: the active entries in slot order.
RECURSIVE ListFrom(_, _)
ListFrom(sg, i) ==
  IF i >= MAX_USERS THEN <<>>
  ELSE (IF sg[i].active = 1 THEN <<sg[i]>> ELSE <<>>) \o ListFrom(sg, i + 1)
registry_list(sg) == ListFrom(sg, 0)

\* strncmp(u.user_id, g_user_id.c_str(), USER_ID_MAX) == 0
IsSelf_Never(u, uid) == FALSE

IsSelf(u, uid) == CStr(u.user_id) = uid

\* The peer whose queue has the name qn.
QueueOwner(qn) == CHOOSE q \in Peers : UserIdOf(q) = qn

NoneSent == [q \in Peers |-> <<>>]

\* One peer has reached the broadcast step with 0..MaxPending entries on
\* local_ops, its local_unmerged either merged away or still holding them;
\* the others sleep, registered or still registering, with a backlog in
\* their queues.
InitBroadcast ==
  /\ \E s \in Peers, n \in 0..MaxPending, merged \in BOOLEAN :
       /\ pc = [p \in Peers |-> IF p = s THEN "bcast" ELSE "sleep"]
       /\ local_ops = [p \in Peers |-> IF p = s THEN PendingOps(p, n) ELSE <<>>]
       /\ local_unmerged = [p \in Peers |->
            IF p = s /\ ~merged THEN PendingExts(p, n) ELSE <<>>]
       /\ \E fill \in [Peers -> Backlogs] :
            mq = [p \in Peers |-> IF p = s THEN <<>> ELSE EarlierOps(s, fill[p])]
       /\ \E reg \in [Peers -> BOOLEAN] :
            seg = [i \in Slots |->
                     IF i + 1 \in Peers
                     THEN (IF reg[i + 1] \/ i + 1 = s
                           THEN RegisteredSlot(i + 1) ELSE ClaimedSlot(i + 1))
                     ELSE initialize_segment[i]]
  /\ g_recv_buf = [p \in Peers |-> <<>>]
  /\ g_last_sender = [p \in Peers |-> <<>>]
  /\ last_sender_by = [p \in Peers |-> {}]
  /\ users = [p \in Peers |-> <<>>]
  /\ idx = [p \in Peers |-> 0]
  /\ op_it = [p \in Peers |-> 0]
  /\ count = [p \in Peers |-> 0]
  /\ peer_up = [p \in Peers |-> TRUE]
  /\ batch = [p \in Peers |-> <<>>]
  /\ kept = [p \in Peers |-> <<>>]
  /\ sent = [p \in Peers |-> NoneSent]
  /\ now = 0 /\ clock = 0 /\ saves = 0
  /\ file = <<>> /\ mtime = <<>> /\ unread = <<>> /\ after_merge = <<>>
  /\ last_mtime = <<>> /\ prev_lines = <<>> /\ merge_baseline = <<>>
  /\ recv_unmerged = <<>> /\ should_merge = <<>> /\ local_dirty = <<>>
  /\ just_merged = <<>> /\ changed = <<>> /\ synth = <<>> /\ delivered = <<>>
  /\ r_pc = <<>> /\ r_i = <<>> /\ r_k = <<>> /\ r_assigned = <<>> /\ r_rc = <<>>
  /\ r_uid = <<>> /\ r_seg0 = <<>>
  /\ IdleMerge /\ IdleRing

notBcastVars == <<mergeVars, ringVars, fileVars, clock, last_mtime, prev_lines,
                  merge_baseline, recv_unmerged, should_merge, local_dirty,
                  just_merged, changed, synth, delivered, g_recv_buf,
                  senderVars,
                  r_pc, r_i, r_k, r_assigned, r_rc, regArgs>>

\* if (local_ops.size() >= N_BROADCAST) { ucount = 0; registry_list(...);
BcastBegin(p) ==
  /\ pc[p] = "bcast"
  /\ IF BroadcastDue(Len(local_ops[p]))
     THEN /\ users' = [users EXCEPT ![p] = registry_list(seg)]
          /\ idx' = [idx EXCEPT ![p] = 0]
          /\ pc' = [pc EXCEPT ![p] = "user"]
     ELSE /\ pc' = [pc EXCEPT ![p] = "sleep"]
          /\ UNCHANGED <<users, idx>>
  /\ batch' = [batch EXCEPT ![p] = local_ops[p]]
  /\ kept' = [kept EXCEPT ![p] = local_unmerged[p]]
  /\ UNCHANGED <<local_ops, local_unmerged, mq, seg, op_it, count, peer_up, sent>>
  /\ UNCHANGED notBcastVars

\* The head of the loop over users: skip self, skip an empty queue name,
\* skip a queue mq_open cannot open; otherwise count = 0 and the send loop.
BcastUser(p) ==
  /\ pc[p] = "user"
  /\ IF idx[p] >= Len(users[p])
     THEN /\ pc' = [pc EXCEPT ![p] = "erase"]
          /\ UNCHANGED <<idx, op_it, count>>
     ELSE LET u == users[p][idx[p] + 1]
          IN  IF \/ IsSelf(u, UserIdOf(p))
                 \/ u.queue_name = <<>>
                 \/ ~peer_up[QueueOwner(u.queue_name)]
              THEN /\ idx' = [idx EXCEPT ![p] = @ + 1]
                   /\ UNCHANGED <<pc, op_it, count>>
              ELSE /\ count' = [count EXCEPT ![p] = 0]
                   /\ op_it' = [op_it EXCEPT ![p] = 0]
                   /\ pc' = [pc EXCEPT ![p] = "send"]
                   /\ UNCHANGED idx
  /\ UNCHANGED <<local_ops, local_unmerged, mq, seg, users, peer_up, batch,
                 kept, sent>>
  /\ UNCHANGED notBcastVars

\* One round of for (const auto& op : local_ops): the end of the range or
\* count >= N_BROADCAST leaves the loop (mq_close, next user); otherwise one
\* mq_send, which fails on a full queue, and count++ only when it succeeded.
BcastSend(p) ==
  /\ pc[p] = "send"
  /\ LET q == QueueOwner(users[p][idx[p] + 1].queue_name)
     IN  IF op_it[p] >= Len(local_ops[p]) \/ count[p] >= N_BROADCAST
         THEN /\ idx' = [idx EXCEPT ![p] = @ + 1]
              /\ pc' = [pc EXCEPT ![p] = "user"]
              /\ UNCHANGED <<mq, op_it, count, sent>>
         ELSE /\ IF Len(mq[q]) < MQ_MAXMSG
                 THEN /\ mq' = [mq EXCEPT ![q] = Append(@, local_ops[p][op_it[p] + 1])]
                      /\ sent' = [sent EXCEPT ![p][q] =
                                    Append(@, local_ops[p][op_it[p] + 1])]
                      /\ count' = [count EXCEPT ![p] = @ + 1]
                 ELSE UNCHANGED <<mq, sent, count>>
              /\ op_it' = [op_it EXCEPT ![p] = @ + 1]
              /\ UNCHANGED <<idx, pc>>
  /\ UNCHANGED <<local_ops, local_unmerged, seg, users, peer_up, batch, kept>>
  /\ UNCHANGED notBcastVars

\* The removal of the first N_BROADCAST entries; then the loop sleeps.
BcastErase(p) ==
  /\ pc[p] = "erase"
  /\ local_ops' = [local_ops EXCEPT ![p] = EraseSent(@)]
  /\ pc' = [pc EXCEPT ![p] = "sleep"]
  /\ UNCHANGED <<local_unmerged, mq, seg, users, idx, op_it, count, peer_up,
                 batch, kept, sent>>
  /\ UNCHANGED notBcastVars

\* The listener of a sleeping peer takes one message from its queue.
BcastListener(q) ==
  /\ peer_up[q]
  /\ pc[q] = "sleep"
  /\ mq[q] # <<>>
  /\ mq' = [mq EXCEPT ![q] = Tail(mq[q])]
  /\ g_recv_buf' = [g_recv_buf EXCEPT ![q] =
       IF Len(g_recv_buf[q]) < RECV_CAP - 1
       THEN Append(g_recv_buf[q], Head(mq[q])) ELSE g_recv_buf[q]]
  /\ StoreSender(q, "listener", <<Head(mq[q])>>)
  /\ UNCHANGED <<pc, local_ops, local_unmerged, seg, bcastVars>>
  /\ UNCHANGED <<mergeVars, ringVars, fileVars, clock, last_mtime, prev_lines,
                 merge_baseline, recv_unmerged, should_merge, local_dirty,
                 just_merged, changed, synth, delivered,
                 r_pc, r_i, r_k, r_assigned, r_rc, regArgs>>

\* cleanup of a sleeping peer: registry_unregister (both strings emptied,
\* active = 0) and mq_unlink of its queue.
PeerExit(q) ==
  /\ peer_up[q]
  /\ pc[q] = "sleep"
  /\ seg[q - 1].queue_name # <<>>
  /\ seg' = [seg EXCEPT ![q - 1].active = 0, ![q - 1].user_id[1] = 0,
                       ![q - 1].queue_name = <<>>]
  /\ peer_up' = [peer_up EXCEPT ![q] = FALSE]
  /\ UNCHANGED <<pc, local_ops, local_unmerged, mq, users, idx, op_it, count,
                 batch, kept, sent>>
  /\ UNCHANGED notBcastVars

Broadcast(p) == BcastBegin(p) \/ BcastUser(p) \/ BcastSend(p) \/ BcastErase(p)

NextBroadcast ==
  \/ \E p \in Peers : Broadcast(p)
  \/ \E q \in Peers : BcastListener(q)
  \/ \E q \in Peers : PeerExit(q)

SpecBroadcast == InitBroadcast /\ [][NextBroadcast]_vars

(***************************************************************************)
(* SpecDrain: the two drain loops on whatever arrives.  The queues start   *)
(* with messages of any sender, the peer's own user id included (a queue   *)
(* is open to every process that knows its name); the users make no save.  *)
(***************************************************************************)
\* messages on a queue at the start
MaxInbound == 2

\* The k-th message on a queue: sender uid replaces line k - 1.
Inbound(uid, k) ==
  to_message([line |-> k - 1, col_start |-> 0, col_end |-> 0,
              old_text |-> <<"o">>, new_text |-> <<"a">>, type |-> "replace"],
             uid, k)

\* The queue contents: at most MaxInbound messages of any senders.
InboundQueues ==
  UNION {{[k \in 1..n |-> Inbound(snd[k], k)] :
            snd \in [1..n -> {UserIdOf(q) : q \in Peers}]} : n \in 0..MaxInbound}

InitDrain ==
  /\ now = 0 /\ clock = 0 /\ saves = MaxSaves
  /\ file = [p \in Peers |-> InitialDoc]
  /\ mtime = [p \in Peers |-> 0]
  /\ unread = [p \in Peers |-> FALSE]
  /\ after_merge = [p \in Peers |-> "none"]
  /\ pc = [p \in Peers |-> "drain1"]
  /\ last_mtime = [p \in Peers |-> 0]
  /\ prev_lines = [p \in Peers |-> read_lines(InitialDoc)]
  /\ merge_baseline = [p \in Peers |-> read_lines(InitialDoc)]
  /\ local_ops = [p \in Peers |-> <<>>]
  /\ local_unmerged = [p \in Peers |-> <<>>]
  /\ recv_unmerged = [p \in Peers |-> <<>>]
  /\ should_merge = [p \in Peers |-> FALSE]
  /\ local_dirty = [p \in Peers |-> FALSE]
  /\ just_merged = [p \in Peers |-> FALSE]
  /\ changed = [p \in Peers |-> FALSE]
  /\ mq \in [Peers -> InboundQueues]
  /\ g_recv_buf = [p \in Peers |-> <<>>]
  /\ g_last_sender = [p \in Peers |-> <<>>]
  /\ last_sender_by = [p \in Peers |-> {}]
  /\ synth = [p \in Peers |-> <<>>]
  /\ delivered = [p \in Peers |-> <<>>]
  /\ IdleMerge /\ IdleRegistry /\ IdleRing /\ IdleBroadcast

NextDrain ==
  \E p \in Peers :
    \/ Listener(p)
    \/ DrainAndStat(p)
    \/ DirtyCheck(p)
    \/ Merge1(p)
    \/ Merge1Stat(p)
    \/ Drain2(p)
    \/ Merge2(p)
    \/ Merge2Stat(p)

SpecDrain == InitDrain /\ [][NextDrain]_vars

(***************************************************************************)
(* SpecLww: do_merge_apply on up to three operations on one line, the      *)
(* conflicts among them resolved by LWW.  A user may have had the text of  *)
(* the marker in the file and removed it.                                  *)
(***************************************************************************)
\* operations handed to one do_merge_apply call in SpecLww
MaxLwwOps == 3
\* timestamps of SpecLww's operations
MaxLwwTs == 3

\* The changes of line 0 the loop can have seen: from a text of at most
\* MaxLineLen characters to one of the letter "a" alone, or the line
\* "###MERGED###" replaced by "a".
LwwPairs ==
  {q \in Texts(MaxLineLen) \X Texts(MaxLineLen) :
     q[1] # q[2] /\ \A k \in 1..Len(q[2]) : q[2][k] = "a"}
    \cup {<<MERGED, <<"a">>>>}

LwwOpsOf(uid) ==
  {MkExt(DiffLine(pr[1], pr[2]), 0, uid, ts) : pr \in LwwPairs, ts \in 1..MaxLwwTs}

\* Lists of at most n operations by uid with increasing timestamps.
LwwListsOf(uid, n) ==
  {l \in UNION {[1..k -> LwwOpsOf(uid)] : k \in 0..n} :
     \A x, y \in 1..Len(l) : x < y => l[x].ts < l[y].ts}

InitLww ==
  \E self \in MergeUids, other \in MergeUids :
    /\ other # self
    /\ m_local \in LwwListsOf(self, MaxLwwOps)
    /\ m_recv \in LwwListsOf(other, MaxLwwOps - Len(m_local))
    /\ m_lines = <<<<"a", "b">>>>
    /\ m_in = [lines |-> m_lines, local |-> m_local, recv |-> m_recv]
    /\ m_winners = <<>>
    /\ m_changed = FALSE
    /\ m_phase = "call"
    /\ IdleRegistry /\ IdleRing /\ IdleEditors /\ IdleBroadcast

NextLww == MergeApply

SpecLww == InitLww /\ [][NextLww]_vars

(***************************************************************************)
(* SpecLife: registry_register and registry_unregister together, on a      *)
(* segment that other users, or a crashed run of the same user, may have   *)
(* left entries in.  Every process makes one registry_register call and    *)
(* may follow it with registry_unregister (cleanup_and_exit), or makes     *)
(* only the registry_unregister call; two processes may have been started  *)
(* with the same user id.  Each access to the shared segment is one step.  *)
(***************************************************************************)
\* processes that register and unregister
NumLifePeers == 2

LifePeers == 1..NumLifePeers

\* The ids of users that are none of the processes: "6", "7", ...
OtherId(i) == <<i + 6>>

\* A slot another user registered in, and the slot a crashed run of user
\* uid left behind: active, its id written, its queue name qn written or
\* not yet.
OtherSlot(i) ==
  [active |-> 1, user_id |-> IdBuf(OtherId(i)), queue_name |-> OtherId(i)]
StaleSlot(uid, qn) == [active |-> 1, user_id |-> IdBuf(uid), queue_name |-> qn]

\* The segments the processes may find: s slots of other users, then
\* possibly a stale slot of user "1", then free slots or other users.
FullOfOthers == [i \in Slots |-> OtherSlot(i)]
StaleAt(s, qn, rest) ==
  [i \in Slots |-> IF i = s THEN StaleSlot(UserIdOf(1), qn)
                   ELSE IF i < s \/ rest = "full" THEN OtherSlot(i)
                   ELSE initialize_segment[i]]
LifeSegments ==
  {initialize_segment, FullOfOthers}
    \cup {StaleAt(s, qn, "free") : s \in {0, 2}, qn \in {<<>>, UserIdOf(1)}}
    \cup {StaleAt(MAX_USERS - 1, <<>>, "full")}

InitLife ==
  /\ seg \in LifeSegments
  /\ r_seg0 = seg
  /\ r_pc \in {f \in [RegPeers -> {"off", "scan", "u_scan"}] :
                 /\ \E p \in LifePeers : f[p] # "off"
                 /\ \A p \in RegPeers \ LifePeers : f[p] = "off"}
  /\ r_uid \in {f \in [RegPeers -> {UserIdOf(p) : p \in RegPeers}] :
                  /\ \A p \in LifePeers : f[p] \in {UserIdOf(1), UserIdOf(p)}
                  /\ \A p \in RegPeers \ LifePeers : f[p] = UserIdOf(p)}
  /\ r_i = [p \in RegPeers |-> 0]
  /\ r_k = [p \in RegPeers |-> 0]
  /\ r_assigned = [p \in RegPeers |-> -1]
  /\ r_rc = [p \in RegPeers |-> 1]
  /\ IdleMerge /\ IdleRing /\ IdleEditors /\ IdleBroadcast

\* cleanup_and_exit of a registered process: registry_unregister is entered.
UnregBegin(p) ==
  /\ r_pc[p] = "done"
  /\ r_rc[p] = 0
  /\ r_pc' = [r_pc EXCEPT ![p] = "u_scan"]
  /\ r_i' = [r_i EXCEPT ![p] = 0]
  /\ r_rc' = [r_rc EXCEPT ![p] = 1]
  /\ UNCHANGED <<seg, r_k, r_assigned>>
  /\ UNCHANGED <<regArgs, notRegVars>>

\* registry_unregister, slot i is active and holds this user id.
UnregMatch(p) ==
  /\ r_pc[p] = "u_scan"
  /\ seg[r_i[p]].active = 1
  /\ IdMatches(seg[r_i[p]].user_id, r_uid[p])
  /\ r_pc' = [r_pc EXCEPT ![p] = "u_clear_id"]
  /\ UNCHANGED <<seg, r_i, r_k, r_assigned, r_rc>>
  /\ UNCHANGED <<regArgs, notRegVars>>

\* registry_unregister, slot i does not match: next slot, or return -1.
UnregScanNext(p) ==
  /\ r_pc[p] = "u_scan"
  /\ ~(seg[r_i[p]].active = 1 /\ IdMatches(seg[r_i[p]].user_id, r_uid[p]))
  /\ IF r_i[p] + 1 < MAX_USERS
     THEN /\ r_i' = [r_i EXCEPT ![p] = r_i[p] + 1]
          /\ UNCHANGED <<r_pc, r_rc>>
     ELSE /\ r_pc' = [r_pc EXCEPT ![p] = "u_done"]
          /\ r_rc' = [r_rc EXCEPT ![p] = -1]
          /\ UNCHANGED r_i
  /\ UNCHANGED <<seg, r_k, r_assigned>>
  /\ UNCHANGED <<regArgs, notRegVars>>

\* seg->users[i].user_id[0] = '\0';
UnregClearId(p) ==
  /\ r_pc[p] = "u_clear_id"
  /\ seg' = [seg EXCEPT ![r_i[p]].user_id[1] = 0]
  /\ r_pc' = [r_pc EXCEPT ![p] = "u_clear_qn"]
  /\ UNCHANGED <<r_i, r_k, r_assigned, r_rc>>
  /\ UNCHANGED <<regArgs, notRegVars>>

\* seg->users[i].queue_name[0] = '\0';
UnregClearQueueName(p) ==
  /\ r_pc[p] = "u_clear_qn"
  /\ seg' = [seg EXCEPT ![r_i[p]].queue_name = <<>>]
  /\ r_pc' = [r_pc EXCEPT ![p] = "u_release"]
  /\ UNCHANGED <<r_i, r_k, r_assigned, r_rc>>
  /\ UNCHANGED <<regArgs, notRegVars>>

\* seg->users[i].active = 0; return 0;
UnregRelease(p) ==
  /\ r_pc[p] = "u_release"
  /\ seg' = [seg EXCEPT ![r_i[p]].active = 0]
  /\ r_rc' = [r_rc EXCEPT ![p] = 0]
  /\ r_pc' = [r_pc EXCEPT ![p] = "u_done"]
  /\ UNCHANGED <<r_i, r_k, r_assigned>>
  /\ UNCHANGED <<regArgs, notRegVars>>

registry_unregister(p) ==
  \/ UnregMatch(p)
  \/ UnregScanNext(p)
  \/ UnregClearId(p)
  \/ UnregClearQueueName(p)
  \/ UnregRelease(p)

NextLife ==
  \E p \in LifePeers :
    \/ registry_register(p)
    \/ UnregBegin(p)
    \/ registry_unregister(p)

SpecLife == InitLife /\ [][NextLife]_vars

(***************************************************************************)
(* Properties of the merge engine (SpecMerge).                             *)
(***************************************************************************)
\* The operations handed to the call, local first.
MergeInput == m_in.local \o m_in.recv

\* All reorderings of a list.
Reorderings(l) ==
  LET n == Len(l)
  IN  {[k \in 1..n |-> l[p[k]]] :
         p \in {q \in [1..n -> 1..n] : \A x, y \in 1..n : x # y => q[x] # q[y]}}

\* The normalized documents do_merge_apply can produce from baseline m_in.lines
\* when the list l is split after its k-th element.
NormalizedResults(l, k) ==
  {TrimTrailingEmpty(r.lines) :
     r \in do_merge_apply(m_in.lines, SubSeq(l, 1, k), SubSeq(l, k + 1, Len(l)))}

\* C2 (merge determinism): after a merge, every ordering of the same
\* operations and every split of them between local_unmerged and
\* recv_unmerged yields the one normalized document the call produced.
C2_MergeDeterminism ==
  m_phase = "ret" /\ MergeInput # <<>> =>
    \A l \in Reorderings(MergeInput) : \A k \in 0..Len(l) :
      NormalizedResults(l, k) = {TrimTrailingEmpty(m_lines)}

\* The input is one local and one received operation that overlap and carry
\* the same timestamp.
TiedConflict ==
  /\ Len(m_in.local) = 1 /\ Len(m_in.recv) = 1
  /\ m_in.local[1].uid # m_in.recv[1].uid
  /\ overlaps(m_in.local[1], m_in.recv[1])
  /\ m_in.local[1].ts = m_in.recv[1].ts

\* Of the two operations of the input, the one with the smaller uid.
SmallerUid ==
  IF StrLess(m_in.local[1].uid, m_in.recv[1].uid) THEN m_in.local[1] ELSE m_in.recv[1]

\* C4 (LWW tiebreak): two overlapping operations of different users with
\* equal timestamps leave exactly the operation of the lexicographically
\* smaller uid as survivor, whether it came first (local) or second (received).
C4_TieBreak ==
  m_phase = "ret" /\ TiedConflict => m_winners = <<SmallerUid>>

\* C4 witness: a tie was resolved in favour of the operation listed second.
C4_Witness ==
  m_phase = "ret" /\ TiedConflict /\ m_winners = <<m_in.recv[1]>>

\* The input is one operation on line 0 whose old_text differs from the
\* segment of the baseline line at col_start.
StaleInput ==
  /\ Len(MergeInput) = 1
  /\ Len(m_in.lines) = 1
  /\ MergeInput[1].line = 0
  /\ Substr(m_in.lines[1], Min2(MergeInput[1].cs, Len(m_in.lines[1])),
            Len(MergeInput[1].old_text)) # MergeInput[1].old_text

\* C5 (stale-operation safety): merging an operation whose old_text does not
\* match the current segment at col_start leaves the line unchanged.
C5_StaleDropped ==
  m_phase = "ret" /\ StaleInput => m_lines[1] = m_in.lines[1]

\* The input is a chain: at least two operations of one uid on one line with
\* one col_start, each new_text equal to the next old_text.
ChainInput ==
  /\ Len(MergeInput) >= 2
  /\ \A k \in 2..Len(MergeInput) :
       /\ MergeInput[k].uid = MergeInput[1].uid
       /\ MergeInput[k].line = MergeInput[1].line
       /\ MergeInput[k].cs = MergeInput[1].cs
       /\ MergeInput[k].old_text = MergeInput[k - 1].new_text

\* The chain as one operation: o1 with the last new_text.
ChainAsOne ==
  [MergeInput[1] EXCEPT !.new_text = MergeInput[Len(MergeInput)].new_text]

\* C6 (chain coalescing): merging a chain o1..ok gives, on the chain's line,
\* the baseline line with the single operation (old_text of o1, new_text of
\* ok) applied by the engine's application rule, and touches no other line.
C6_ChainCoalesce ==
  m_phase = "ret" /\ ChainInput =>
    LET ln == ChainAsOne.line
        ext == ExtendTo(m_in.lines, ln)
    IN  m_lines = [ext EXCEPT ![ln + 1] = ApplySorted(ext[ln + 1], <<ChainAsOne>>, 1, 0)]

\* C6 witness: a chain of three operations whose steps replace texts of
\* different lengths was merged and changed the document.
C6_Witness ==
  /\ m_phase = "ret" /\ ChainInput
  /\ Len(MergeInput) = 3
  /\ Len(MergeInput[1].old_text) # Len(MergeInput[2].old_text)
  /\ MergeInput[1].old_text # <<>>
  /\ m_lines # m_in.lines

(***************************************************************************)
(* Properties of the registry (SpecRegistry).                              *)
(***************************************************************************)
\* The processes that called register, and whether all have returned.
RegCallers == {p \in RegPeers : r_pc[p] # "off"}
RegAllReturned == \A p \in RegCallers : r_pc[p] = "done"
TakenSlots == {i \in Slots : seg[i].active = 1}

\* C9 (registry mutual exclusion): once the K concurrent register calls have
\* returned, exactly K slots are taken, the callers hold pairwise different
\* slot indices, and the taken slots hold exactly the K user ids.
C9_RegistryMutex ==
  RegAllReturned =>
    /\ Cardinality(TakenSlots) = Cardinality(RegCallers)
    /\ \A p, q \in RegCallers : p # q => r_assigned[p] # r_assigned[q]
    /\ {CStr(seg[i].user_id) : i \in TakenSlots} = {UserIdOf(p) : p \in RegCallers}

(***************************************************************************)
(* Properties of the ring buffer (SpecRing).                               *)
(***************************************************************************)
\* C10 (ring FIFO): at every moment the values pop has returned are, in
\* order, the first messages whose push succeeded: none duplicated, none
\* skipped, none a mixture of two messages.
C10_RingFifo ==
  /\ Len(popped) <= Len(pushed)
  /\ \A k \in 1..Len(popped) : popped[k] = Msg(pushed[k])

\* The ring has wrapped around: pushes were refused on a full ring, and every
\* accepted message, more than CAP of them, has been popped.
C10_Witness ==
  /\ Len(pushed) > CAP
  /\ Len(pushed) < pu_next - 1
  /\ Len(popped) = Len(pushed)
  /\ po_pc = "idle"

\* Number of messages pushed and not yet consumed.
Held == Len(pushed) - Len(popped)

\* C11 (ring capacity): a push is refused only when, at the read of tail,
\* (head + 1) mod CAP = tail and the ring holds exactly CAP - 1 unconsumed
\* messages; a pop is refused only when head = tail and nothing is held; at
\* every moment the ring holds between 0 and CAP - 1 messages, which is the
\* distance from tail to head.
C11_RingCapacity ==
  /\ [](Held \in 0..(CAP - 1) /\ Held = (head - tail + CAP) % CAP)
  /\ [][/\ push_Full => ((head + 1) % CAP = tail /\ Held = CAP - 1)
        /\ pop_Empty => (head = tail /\ Held = 0)]_vars

\* A push has been refused, the ring is full with CAP - 1 messages, and the
\* consumer has already taken some.
C11_Witness ==
  /\ Held = CAP - 1
  /\ pu_pc = "idle"
  /\ Len(pushed) < pu_next - 1
  /\ Len(popped) > 0
  /\ (head + 1) % CAP = tail

(***************************************************************************)
(* Properties of the editors end to end (Spec).                            *)
(***************************************************************************)
Range(f) == {f[k] : k \in 1..Len(f)}

IsPrefix(a, b) == Len(a) <= Len(b) /\ SubSeq(b, 1, Len(a)) = a

\* Every synthesized operation has reached every other peer, every peer has
\* merged all it holds, and no save is waiting to be diffed.
Quiescent ==
  /\ \A p, q \in Peers : p # q => Range(synth[p]) \subseteq Range(delivered[q])
  /\ \A p \in Peers : local_unmerged[p] = <<>> /\ recv_unmerged[p] = <<>>
  /\ \A p \in Peers : ~unread[p]

\* C1 (convergence): peers that started from the same document, have
\* delivered every synthesized operation to every other peer, have merged
\* everything and have no edit pending hold identical files.
C1_Convergence ==
  Quiescent => \A p, q \in Peers : file[p] = file[q]

\* The operations peer p synthesized on line ln.
OpsOn(p, ln) == {m \in Range(synth[p]) : m.line = ln}

\* Peers A and B each replaced the same span of line ln, at different times,
\* and nobody else touched the line: the later of the two operations.
LaterReplace(A, B, ln) ==
  {mb \in OpsOn(B, ln) :
     \E ma \in OpsOn(A, ln) :
       /\ OpsOn(A, ln) = {ma} /\ OpsOn(B, ln) = {mb}
       /\ \A C \in Peers \ {A, B} : OpsOn(C, ln) = {}
       /\ ma.op = "replace" /\ mb.op = "replace"
       /\ ma.col_start = mb.col_start /\ ma.col_end = mb.col_end
       /\ ma.new_text # mb.new_text
       /\ ma.timestamp_ns < mb.timestamp_ns}

\* C3 (LWW by timestamp end to end): when A and B each replaced the same span
\* of a line at times t1 < t2 and both have broadcast and merged, the line
\* reads B's text, the span replaced by the later new_text, in every file.
C3_LwwEndToEnd ==
  \A A, B \in Peers : \A ln \in 0..(Len(InitialDoc) - 1) :
    \A mb \in LaterReplace(A, B, ln) :
      Quiescent =>
        \A p \in {A, B} :
          /\ Len(file[p]) > ln
          /\ file[p][ln + 1] =
               Substr(InitialDoc[ln + 1], 0, mb.col_start) \o mb.new_text
                 \o SubstrFrom(InitialDoc[ln + 1], mb.col_end + 1)

\* A step of the loop of p that writes a merge result over different file
\* content.
Writeback(p) ==
  /\ pc[p] \in {"merge1", "merge2"}
  /\ pc'[p] # pc[p]
  /\ changed'[p]
  /\ file'[p] # file[p]

\* C7 (fresh edits are never overwritten): whenever a merge pass, first or
\* second, writes the file, the file holds no user save that the loop has
\* not yet read and diffed.
C7_FreshEditsKept ==
  [][\A p \in Peers : Writeback(p) => ~unread[p]]_vars

\* The loop of p is past the dirty check of the current iteration.
PastDirtyCheck(p) == pc[p] \in {"merge1", "stat1", "drain2", "merge2", "stat2"}

\* C8 (merge guard): in an iteration whose dirty check saw an mtime other
\* than last_mtime, every later step of the loop leaves the file, prev_lines,
\* merge_baseline and local_unmerged as they are and removes nothing from
\* recv_unmerged (the re-drain may append to it): no merge pass runs.
C8_MergeGuard ==
  [][\A p \in Peers :
       (local_dirty[p] /\ PastDirtyCheck(p) /\ pc'[p] # pc[p]) =>
         /\ file'[p] = file[p]
         /\ prev_lines'[p] = prev_lines[p]
         /\ merge_baseline'[p] = merge_baseline[p]
         /\ local_unmerged'[p] = local_unmerged[p]
         /\ IsPrefix(recv_unmerged[p], recv_unmerged'[p])
         /\ pc'[p] \notin {"stat1", "stat2"}]_vars

\* An iteration that had received operations to merge, found the file
\* dirty, and has ended with the unread save and the operations in place.
C8_Witness ==
  \E p \in Peers :
    /\ pc[p] = "drain1"
    /\ local_dirty[p] /\ should_merge[p]
    /\ unread[p]
    /\ recv_unmerged[p] # <<>>


\* The step that ends an iteration of p's loop (the broadcast step and the
\* sleep).
EndsIteration(p) == pc[p] # "drain1" /\ pc'[p] = "drain1"

\* Nothing of another peer exists for p to receive.
NoRemoteOps(p) ==
  /\ \A q \in Peers \ {p} : synth[q] = <<>>
  /\ recv_unmerged[p] = <<>> /\ g_recv_buf[p] = <<>> /\ mq[p] = <<>>

\* The merge form of a message, whatever its timestamp.
SameOperation(msg, ext) == [to_ext(msg) EXCEPT !.ts = ext.ts] = ext

\* C12 (end state at the broadcast threshold): an iteration that ends with
\* the fifth local operation on local_ops, nothing remote pending, has sent
\* the 5 records to every other peer, leaves local_ops empty and leaves
\* local_unmerged holding the 5 operations in merge form.
C12_ThresholdEndState ==
  [][\A p \in Peers :
       (EndsIteration(p) /\ Len(local_ops[p]) = N_BROADCAST /\ NoRemoteOps(p)) =>
         /\ \A q \in Peers \ {p} : mq'[q] = mq[q] \o local_ops[p]
         /\ local_ops'[p] = <<>>
         /\ Len(local_unmerged'[p]) = N_BROADCAST
         /\ \A k \in 1..N_BROADCAST :
              SameOperation(local_ops[p][k], local_unmerged'[p][k])]_vars

\* What a step has appended to the list held in old, new being the list
\* after the step.
Appended(old, new) == SubSeq(new, Len(old) + 1, Len(new))

\* C19 (twin records): the detection pass appends to local_ops and to
\* local_unmerged one record per detected change, and the k-th record appended
\* to local_unmerged is the merge form of the k-th appended to local_ops, with
\* the same uid, timestamp, line, columns, kind and texts.
C19_TwinRecords ==
  [][\A p \in Peers :
       (pc[p] = "diff" /\ pc'[p] # "diff") =>
         LET msgs == Appended(local_ops[p], local_ops'[p])
             exts == Appended(local_unmerged[p], local_unmerged'[p])
         IN  /\ Len(msgs) = Len(DetectChanges(prev_lines[p], read_lines(file[p])))
             /\ Len(exts) = Len(msgs)
             /\ \A k \in 1..Len(msgs) : to_ext(msgs[k]) = exts[k]]_vars

\* prev_lines, merge_baseline and the file as read_lines reads it agree.
InSync(p) ==
  /\ prev_lines[p] = merge_baseline[p]
  /\ read_lines(file[p]) = prev_lines[p]

\* C20 (state after a merge writeback, as stated): from a successful merge
\* writeback of either pass until the loop detects the next save of the
\* user, prev_lines, merge_baseline and the normalized content of the file
\* are equal.
C20_InSyncUntilDetected ==
  \A p \in Peers : after_merge[p] \in {"clean", "saved"} => InSync(p)

\* C20 (as the code has it): they are equal from a successful merge writeback
\* until the user next saves the file.
C20_InSyncUntilSaved ==
  \A p \in Peers : after_merge[p] = "clean" => InSync(p)

\* A peer has merged operations received from another peer into its file,
\* has gone on to later iterations, and its user has not saved since.
C20_Witness ==
  \E p \in Peers :
    /\ after_merge[p] = "clean"
    /\ pc[p] = "check"
    /\ delivered[p] # <<>>
    /\ file[p] # InitialDoc

\* The messages that have been put on the queue of q so far.
Arrived(q) == Range(mq[q]) \cup Range(g_recv_buf[q]) \cup Range(delivered[q])

\* Everything p has synthesized has been sent to every other peer.
AllSent(p) ==
  \A k \in 1..Len(synth[p]) : \A q \in Peers \ {p} : synth[p][k] \in Arrived(q)

\* C18 (every operation is eventually broadcast): with the loops and the
\* listeners running, no operation a peer has synthesized stays unsent
\* forever: again and again, everything synthesized so far has been put on
\* the queue of every other peer.
C18_EveryOpSent == \A p \in Peers : []<>AllSent(p)

(***************************************************************************)
(* Properties of the broadcast block (SpecBroadcast).                      *)
(***************************************************************************)
\* The first N_BROADCAST entries of ops.
FirstBatch(ops) == SubSeq(ops, 1, Min2(N_BROADCAST, Len(ops)))

\* C13 (one broadcast sends from the first five only): whatever a broadcast
\* has put on a recipient's queue is drawn from the first N_BROADCAST entries
\* local_ops held when the broadcast began, each entry at most once; a record
\* whose send failed is not made up for by a later entry.
C13_FirstFiveOnly ==
  \A p \in Peers, q \in Peers :
    /\ \A k \in 1..Len(sent[p][q]) : sent[p][q][k] \in Range(FirstBatch(batch[p]))
    /\ \A j, k \in 1..Len(sent[p][q]) : j # k => sent[p][q][j] # sent[p][q][k]

C15_SilentBelowThreshold ==
  \A p \in Peers :
    /\ Len(batch[p]) < N_BROADCAST =>
         sent[p] = NoneSent /\ (pc[p] = "sleep" => local_ops[p] = batch[p])
    /\ sent[p][p] = <<>>
    /\ \A k \in 1..Len(mq[p]) : mq[p][k].sender # UserIdOf(p)

\* A peer with three pending operations has passed the broadcast step while
\* another registered peer with room in its queue was running; and a peer
\* with a full batch has been through the user list, itself included.
C15_Witness ==
  \/ \E p \in Peers, q \in Peers :
       /\ p # q /\ pc[p] = "sleep" /\ Len(batch[p]) = 3
       /\ peer_up[q] /\ seg[q - 1].queue_name # <<>> /\ mq[q] = <<>>
       /\ local_unmerged[p] # <<>>
  \/ \E p \in Peers, q \in Peers :
       /\ p # q /\ pc[p] = "sleep" /\ Len(sent[p][q]) = N_BROADCAST
       /\ \E k \in 1..Len(users[p]) : IsSelf(users[p][k], UserIdOf(p))


(***************************************************************************)
(* Properties of inserted text (SpecInsert) and of the diff (SpecDiff).    *)
(***************************************************************************)
\* C16 (disjoint inserts commute): once user 1 has inserted at the end of
\* line 0 and user 2 at column 0 of line 1, both have broadcast and every
\* peer has merged everything, both files are the same, line 0 is the
\* original line with user 1's letter after it and line 1 is the original
\* line with user 2's letter before it.
C16_DisjointInserts ==
  (Quiescent /\ synth[1] # <<>> /\ synth[2] # <<>>) =>
    /\ \A p, q \in Peers : file[p] = file[q]
    /\ \A p \in Peers :
         /\ file[p][1] = InsertDoc[1] \o LetterOf(1)
         /\ file[p][2] = LetterOf(2) \o InsertDoc[2]

\* The largest element of a non-empty set of numbers.
MaxOf(S) == CHOOSE x \in S : \A y \in S : y <= x

\* The length of the longest common prefix of two lines.
PrefixLen(oldL, newL) ==
  MaxOf({k \in 0..Min2(Len(oldL), Len(newL)) : SubSeq(oldL, 1, k) = SubSeq(newL, 1, k)})

\* The length of the longest common suffix that leaves the first k
\* characters of both lines alone.
SuffixLen(oldL, newL, k) ==
  MaxOf({t \in 0..(Min2(Len(oldL), Len(newL)) - k) :
           SubSeq(oldL, Len(oldL) - t + 1, Len(oldL)) =
           SubSeq(newL, Len(newL) - t + 1, Len(newL))})

\* The operation the minimal-span diff is to give for line 0 going from oldL
\* to newL, as a message of uid stamped ts.
MinimalSpan(oldL, newL, uid, ts) ==
  LET k == PrefixLen(oldL, newL)
      t == SuffixLen(oldL, newL, k)
      om == SubSeq(oldL, k + 1, Len(oldL) - t)
      nm == SubSeq(newL, k + 1, Len(newL) - t)
  IN  [sender |-> uid, timestamp_ns |-> ts, line |-> 0,
       col_start |-> k,
       col_end |-> IF om = <<>> THEN k ELSE k + Len(om) - 1,
       op |-> IF om = <<>> THEN "insert" ELSE IF nm = <<>> THEN "delete" ELSE "replace",
       old_text |-> om, new_text |-> nm]

LifeReturned == \A p \in LifePeers : r_pc[p] \in {"off", "done", "u_done"}
TakenIn(sg) == {i \in Slots : sg[i].active = 1}
SlotsOf(sg, uid) == {i \in TakenIn(sg) : CStr(sg[i].user_id) = uid}

\* C21 (one slot per user id): once every register and unregister call has
\* returned, no two active slots hold the same user id, also when two
\* processes registered the same id at the same time.
C21_UniqueIds ==
  LifeReturned =>
    \A i, j \in TakenIn(seg) :
      i # j => CStr(seg[i].user_id) # CStr(seg[j].user_id)

\* C22 (no taken slot without an id): in every state, the middle of a
\* register or an unregister call included, a slot whose active flag is 1
\* holds a non-empty user id.
C22_TakenHasId == \A i \in TakenIn(seg) : CStr(seg[i].user_id) # <<>>

\* The exposure by unregister's write order alone: the id is emptied and the
\* flag is still 1.
C22_UnregisterExposes ==
  \E p \in LifePeers :
    /\ r_pc[p] \in {"u_clear_qn", "u_release"}
    /\ seg[r_i[p]].active = 1
    /\ CStr(seg[r_i[p]].user_id) = <<>>

\* A register call that ran alone on a segment holding an active slot of its
\* user id.
AloneOnOwnSlot(p) ==
  /\ r_pc[p] = "done"
  /\ \A q \in LifePeers \ {p} : r_pc[q] = "off"
  /\ SlotsOf(r_seg0, r_uid[p]) # {}

\* C23 (register is idempotent per user id): a register call for a user id
\* that has an active slot, a stale one included, returns 0 with that slot's
\* index, changes nothing in the segment but that slot's queue name, and
\* leaves the number of active slots as it was.
C23_Idempotent ==
  \A p \in LifePeers :
    AloneOnOwnSlot(p) =>
      LET s == CHOOSE i \in SlotsOf(r_seg0, r_uid[p]) : TRUE
      IN  /\ r_rc[p] = 0
          /\ r_assigned[p] = s
          /\ seg = [r_seg0 EXCEPT ![s].queue_name = r_uid[p]]
          /\ Cardinality(TakenIn(seg)) = Cardinality(TakenIn(r_seg0))

\* C23 witness: the call found a stale slot behind two slots of other users,
\* its queue name not written, and wrote the queue name.
C23_Witness ==
  \E p \in LifePeers :
    /\ AloneOnOwnSlot(p)
    /\ r_seg0 = StaleAt(2, <<>>, "free")
    /\ r_assigned[p] = 2
    /\ seg[2].queue_name = r_uid[p]

\* C24 (registry full): on a segment whose MAX_USERS slots are all taken by
\* other users, the segment never changes and a register call returns -4
\* with assigned_index -1.
C24_RegistryFull ==
  r_seg0 = FullOfOthers =>
    /\ seg = r_seg0
    /\ \A p \in LifePeers :
         r_pc[p] = "done" => r_rc[p] = -4 /\ r_assigned[p] = -1

\* C24 witness: a register call has returned -4 from the full segment.
C24_Witness ==
  /\ r_seg0 = FullOfOthers
  /\ Cardinality(TakenIn(r_seg0)) = MAX_USERS
  /\ \E p \in LifePeers : r_pc[p] = "done" /\ r_rc[p] = -4

(***************************************************************************)
(* The two merge passes of an iteration (Spec)                             *)
(***************************************************************************)
\* What the first merge pass is to depend on: something to merge, and a
\* file whose mtime is last_mtime.
MergeDue(p) ==
  /\ recv_unmerged[p] # <<>> \/ Len(local_unmerged[p]) >= 5
  /\ mtime[p] = last_mtime[p]

C26_SecondPassGuard ==
  [][\A p \in Peers :
       (pc[p] = "merge2" /\ pc'[p] # "merge2" /\ changed'[p]) =>
         mtime[p] = last_mtime[p]]_vars

(***************************************************************************)
(* The merge engine on a peer's own operations (SpecMerge)                 *)
(***************************************************************************)
\* The input is one operation of the merging peer on line 0, nothing
\* received, and the operation's new_text stands at col_start of the line.
OwnEditPresent ==
  /\ Len(m_in.local) = 1 /\ m_in.recv = <<>>
  /\ Len(m_in.lines) = 1
  /\ LET u == m_in.local[1]
     IN  /\ u.line = 0
         /\ u.new_text # <<>>
         /\ u.cs + Len(u.new_text) <= Len(m_in.lines[1])
         /\ Substr(m_in.lines[1], u.cs, Len(u.new_text)) = u.new_text

\* C27 (own edit already present is skipped): merging an operation of the
\* merging peer whose new_text is already at col_start of the line leaves
\* the line as it is; the edit is not applied a second time.
C27_OwnEditSkipped ==
  (m_phase = "ret" /\ OwnEditPresent) => m_lines = m_in.lines

(***************************************************************************)
(* The columns of a synthesized operation (SpecDiff)                       *)
(***************************************************************************)
\* C28 (inclusive column end): every operation the detection pass buffers
\* has col_end = col_start + len(old_text) - 1 when old_text is non-empty,
\* and col_end = col_start - 1 when it is a pure insertion (old_text empty).
C28_InclusiveColEnd ==
  \A p \in Peers : \A k \in 1..Len(local_unmerged[p]) :
    LET u == local_unmerged[p][k]
    IN  u.ce = IF u.old_text # <<>> THEN u.cs + Len(u.old_text) - 1
               ELSE u.cs - 1

(***************************************************************************)
(* The conflict predicate (SpecMerge)                                      *)
(***************************************************************************)
\* The columns an operation replaces: [cs, cs + len(old_text)).
Cols(u) == {c \in 0..(u.cs + Len(u.old_text)) :
              u.cs <= c /\ c < u.cs + Len(u.old_text)}

\* i is a pure insertion at a column strictly inside the range of u.
InsertsInside(i, u) ==
  /\ i.old_text = <<>>
  /\ u.cs < i.cs /\ i.cs < u.cs + Len(u.old_text)

\* The conflict relation as stated: different lines never, two pure
\* insertions at one column always, otherwise a shared column.
SharesColumn(a, b) ==
  /\ a.line = b.line
  /\ \/ a.old_text = <<>> /\ b.old_text = <<>> /\ a.cs = b.cs
     \/ Cols(a) \cap Cols(b) # {}

\* The input is one local and one received operation (different users, so
\* nothing is coalesced).
PairInput == Len(m_in.local) = 1 /\ Len(m_in.recv) = 1

\* C29 (conflict predicate, as stated): of one local and one received
\* operation exactly one survives if and only if they are on the same line
\* and are two pure insertions at one column or have half-open ranges
\* [cs, cs + len(old_text)) that share a column; the predicate is symmetric.
C29_SharedColumn ==
  (m_phase = "ret" /\ PairInput) =>
    LET a == m_in.local[1]
        b == m_in.recv[1]
    IN  /\ (Len(m_winners) = 1) <=> SharesColumn(a, b)
        /\ overlaps(a, b) = overlaps(b, a)

\* C29 (as the code has it): they conflict if and only if they are on the
\* same line and are two pure insertions at one column, or their ranges
\* share a column, or one is a pure insertion at a column strictly inside
\* the other's range; the predicate is symmetric.
C29_Overlaps ==
  (m_phase = "ret" /\ PairInput) =>
    LET a == m_in.local[1]
        b == m_in.recv[1]
    IN  /\ (Len(m_winners) = 1) <=>
             \/ SharesColumn(a, b)
             \/ a.line = b.line /\ (InsertsInside(a, b) \/ InsertsInside(b, a))
        /\ (Len(m_winners) = 2) <=> ~overlaps(a, b)
        /\ overlaps(a, b) = overlaps(b, a)

\* C29 witness: an insertion at column 1 met a replacement of columns 0-1 of
\* the same line, and one of the two was dropped.
C29_Witness ==
  /\ m_phase = "ret" /\ PairInput
  /\ m_in.local[1].line = m_in.recv[1].line
  /\ InsertsInside(m_in.local[1], m_in.recv[1])
  /\ Len(m_winners) = 1

(***************************************************************************)
(* The buffers after a merge (SpecMerge)                                   *)
(***************************************************************************)
\* C30 (a merge empties both buffers): a call of the merge engine with at
\* least one pending operation returns with local_unmerged and recv_unmerged
\* empty, whether or not every operation survived and whether or not the
\* lines changed.
C30_BuffersCleared ==
  (m_phase = "ret" /\ MergeInput # <<>>) => m_local = <<>> /\ m_recv = <<>>

\* C30 witness: the call had operations of both kinds, dropped one of them,
\* left the lines as they were, and returned with both buffers empty.
C30_Witness ==
  /\ m_phase = "ret"
  /\ m_in.local # <<>> /\ m_in.recv # <<>>
  /\ Len(m_winners) < Len(MergeInput)
  /\ m_lines = m_in.lines
  /\ m_local = <<>> /\ m_recv = <<>>

(***************************************************************************)
(* The listener on a full ring (SpecRing)                                  *)
(***************************************************************************)
\* The messages the listener offered that push refused.
Refused == {v \in 1..(pu_next - 1) : v \notin Range(pushed)}

\* C31 (overflow drops silently): a push on a full ring fails and changes
\* neither the ring's slots nor head nor tail; the refused message is not
\* offered again and never reaches the consumer; the listener goes on with
\* the next message.
C31_OverflowDrop ==
  /\ [][push_Full =>
          /\ head' = head /\ tail' = tail /\ data' = data
          /\ pushed' = pushed /\ popped' = popped
          /\ pu_next' = pu_next + 1
          /\ pu_pc' = "idle"]_vars
  /\ [](\A k \in 1..Len(popped) : popped[k].lo \notin Refused)

\* C31 witness: a message was refused on the full ring, and a message that
\* came after it has been pushed and popped.
C31_Witness ==
  /\ pu_pc = "idle"
  /\ \E v \in Refused :
       \E k \in 1..Len(popped) : popped[k] = Msg(v + 1)

(***************************************************************************)
(* What the listener thread shares with the main loop (Spec)               *)
(***************************************************************************)
\* C32 (the listener writes only the ring): within one peer no variable
\* other than the receive ring is written by the listener thread and also
\* written (or read) by the main loop; here for g_last_sender: never have
\* both threads of a peer stored to it.
C32_ListenerWritesRingOnly ==
  \A p \in Peers : ~({"listener", "main"} \subseteq last_sender_by[p])

(***************************************************************************)
(* The iterations after a merge writeback (Spec)                           *)
(***************************************************************************)
\* C33 (no self-feedback): while the last modification of p's file is its
\* own merge writeback (no user save since), no step of p's loop takes the
\* file for changed (no detection pass begins) and nothing is appended to
\* local_ops or local_unmerged.
C33_NoSelfFeedback ==
  [][\A p \in Peers :
       after_merge[p] = "clean" =>
         /\ pc'[p] # "diff"
         /\ Len(local_ops'[p]) <= Len(local_ops[p])
         /\ Len(local_unmerged'[p]) <= Len(local_unmerged[p])]_vars

\* C33 witness: the file was written by a merge in a later second than the
\* mtime the loop knew before, no save followed, and the next iteration has
\* passed its stat without a detection pass.
C33_Witness ==
  \E p \in Peers :
    /\ after_merge[p] = "clean"
    /\ pc[p] = "check"
    /\ mtime[p] > 0
    /\ last_mtime[p] = mtime[p]
    /\ prev_lines[p] = file[p]

(***************************************************************************)
(* The drain loops (SpecDrain)                                             *)
(***************************************************************************)
\* C34 (own messages are not merged as remote): recv_unmerged of a peer
\* never holds an operation whose sender is the peer's own user id; both
\* drain loops drop such messages.
C34_NoOwnInRecv ==
  \A p \in Peers : \A k \in 1..Len(recv_unmerged[p]) :
    recv_unmerged[p][k].uid # UserIdOf(p)

\* C34 witness: a peer has drained a message of its own id and one of
\* another user in the re-drain, and holds the other one only.
C34_Witness ==
  \E p \in Peers :
    /\ pc[p] = "merge2"
    /\ \E k \in 1..Len(delivered[p]) : delivered[p][k].sender = UserIdOf(p)
    /\ delivered[p][Len(delivered[p])].sender = UserIdOf(p)
    /\ Len(recv_unmerged[p]) = 1

(***************************************************************************)
(* Clean exit (SpecLife)                                                   *)
(***************************************************************************)
\* the processes were started with pairwise different user ids
DistinctIds == \A p, q \in LifePeers : p # q => r_uid[p] # r_uid[q]

\* process p registered, called registry_unregister from cleanup_and_exit,
\* and the call has returned
ExitedCleanly(p) == r_pc[p] = "u_done" /\ r_assigned[p] # -1

\* C35 (clean exit): with pairwise different user ids, once a registered
\* process has run cleanup_and_exit and every registry call has returned, no
\* active slot carries its user id, and the steps of its registry_unregister
\* change no slot but the one it had been assigned.
C35_CleanExit ==
  /\ [](\A p \in LifePeers :
          (DistinctIds /\ ExitedCleanly(p) /\ LifeReturned)
            => SlotsOf(seg, r_uid[p]) = {})
  /\ [][\A p \in LifePeers :
          (DistinctIds /\ r_assigned[p] # -1 /\ registry_unregister(p))
            => \A i \in Slots \ {r_assigned[p]} : seg'[i] = seg[i]]_vars

(***************************************************************************)
(* Local-only merges (SpecInsert)                                          *)
(***************************************************************************)
\* a merge pass of p that runs on local operations alone
LocalOnlyMerge(p) ==
  /\ recv_unmerged[p] = <<>>
  /\ local_unmerged[p] # <<>>
  /\ Merge1(p) \/ Merge2(p)

\* C36 (a local-only merge reproduces the saved content): a merge pass that
\* runs with recv_unmerged empty computes, from merge_baseline and
\* local_unmerged, the content of prev_lines, and where the file holds that
\* content the pass leaves the file as it is.
C36_LocalMergeIsIdentity ==
  [][\A p \in Peers :
       LocalOnlyMerge(p) =>
         /\ prev_lines'[p] = prev_lines[p]
         /\ file[p] = prev_lines[p] => file'[p] = file[p]]_vars

(***************************************************************************)
(* Diff and application together (SpecDiff)                                *)
(***************************************************************************)
\* the detection pass of p has synthesized exactly one operation
OneSynthesized(p) == pc[p] = "check" /\ Len(local_unmerged[p]) = 1

\* C37 (diff/apply round trip): when the detection pass has turned a changed
\* line into one operation, applying that operation with do_merge_apply to
\* the content before the change gives the content after the change.
C37_DiffApplyRoundTrip ==
  \A p \in Peers :
    OneSynthesized(p) =>
      \A r \in do_merge_apply(merge_baseline[p], local_unmerged[p], <<>>) :
        r.lines = prev_lines[p]

(***************************************************************************)
(* LWW conflict resolution (SpecLww)                                       *)
(***************************************************************************)
\* The list the LWW loop of the call worked on.
LwwList == ChainMerge(MergeInput)

\* The operations the LWW loop discarded in a comparison (not the ones it
\* skipped for their marker), and the ones it left alive, by index.
LwwDiscarded(alive) ==
  {k \in 1..Len(LwwList) : LwwList[k].old_text # MERGED /\ ~alive[k]}
LwwSurvivors(alive) == {k \in 1..Len(LwwList) : alive[k]}

\* C38 (discarded only by a survivor): after the call, every operation the
\* LWW loop discarded overlaps a surviving operation that beats it under
\* newer_wins.
C38_DiscardedBySurvivor ==
  m_phase = "ret" =>
    LET alive == Resolve(LwwList)
    IN  \A k \in LwwDiscarded(alive) :
          \E w \in LwwSurvivors(alive) :
            /\ overlaps(LwwList[w], LwwList[k])
            /\ newer_wins(LwwList[w], LwwList[k])

\* C39 (survivors are disjoint, and there is one): after the call no two
\* survivors overlap, and a call with at least one operation has at least
\* one survivor.
C39_SurvivorsDisjoint ==
  m_phase = "ret" =>
    /\ \A x, y \in 1..Len(m_winners) :
         x # y => ~overlaps(m_winners[x], m_winners[y])
    /\ MergeInput # <<>> => m_winners # <<>>

=============================================================================
